---- MODULE Spec2Model ----
(***************************************************************************)
(* Drone convoy tracking server.                                           *)
(*                                                                         *)
(* Three subsystems of the repository are modelled as state machines:      *)
(*   - the tracking engine   (drone-tracker/src/lib.rs,  DroneTracker)     *)
(*   - the subscriber hub    (drone-websocket/src/{hub,lib}.rs)            *)
(*   - the visual tracker    (drone-cv/src/tracker.rs,   DroneTracker)     *)
(* Each has its own specification (SpecTracker, SpecHub, SpecCv); SpecSys  *)
(* puts the engine and the hub side by side in one process.                *)
(***************************************************************************)
EXTENDS Integers, Sequences, FiniteSets, TLC

VARIABLES
    \* ---- tracking engine (drone-tracker/src/lib.rs) ----
    drones,          \* DashMap<DroneId, TrackedDrone>
    mission,         \* RwLock<Option<Mission>>
    reached,         \* per drone id: the waypoint ids a waypoint-reached event named
    calls,           \* number of engine operations called so far
    alert_queue,     \* contents of the mpsc alert channel
    last_op,         \* the engine operation that ran last: inputs, events sent
    db,              \* Option<Arc<DbClient>>
    guards,          \* drone ids whose map entry is held by a suspended update call
    db_pending,      \* telemetry inserts handed to the database and not yet returned
    \* ---- subscriber hub (drone-websocket/src/hub.rs, lib.rs) ----
    clients,         \* DashMap<Uuid, ClientState>: client id -> subscriptions
    hub_chan,        \* the hub's broadcast channel: retained events and tail
    hub_rx,          \* per connection: the broadcast receiver's next position
    conn,            \* per connection: where handle_connection stands
    incoming,        \* per connection: where its incoming task stands
    frames,          \* per connection: frames written to the socket, in order
    received,        \* per connection: events its receiver returned, in order
    hub_published,   \* every Event passed to WebSocketHub::broadcast, in order
    reg_at,          \* per connection: Len(hub_published) when register_client returned
    lagged,          \* per connection: has its receiver ever reported Lagged
    skipped,         \* per connection: the sum of the n its receiver reported as Lagged(n)
    handshake_late,  \* per connection: were events broadcast between its registration and its handshake
    message_count,   \* AtomicUsize message_count
    command_handler, \* RwLock<Option<Box<dyn Fn(DroneCommand)>>>
    invocations,     \* the calls of command handlers: handler and command, in order
    last_text,       \* the hub call made last by an incoming task or the hub's owner
    text_count,      \* number of text frames the incoming tasks have handled
    parse_errors,    \* per connection: its text frames that did not parse
    \* ---- HTTP API (drone-api/src/state.rs, handlers.rs) ----
    active_mission,  \* AppState.active_mission: the Option<Mission> inside the RwLock
    mission_lock,    \* the request holding the slot's write guard, or None
    api_pc,          \* per request: where its handler stands
    api_ret,         \* per request: what its handler returned
    api_calls,       \* number of handler invocations so far
    \* ---- mission executor (drone-tracker/src/mission.rs) ----
    exec_mission,    \* MissionExecutor.mission: Option<Mission>
    drone_progress,  \* HashMap<DroneId, WaypointProgress>
    exec_last,       \* the executor call that ran last: inputs and result
    exec_calls,      \* number of executor calls so far
    \* ---- visual tracker (drone-cv/src/tracker.rs) ----
    cv_config,       \* TrackingConfig fields the tracker reads
    tracks,          \* HashMap<u32, TrackState>
    next_id,         \* next tracking id
    frame_count,     \* frame counter
    drone_associations, \* HashMap<u32, DroneId>
    cv_last,         \* the last tracker call: detections, associations, result
    cv_inputs,       \* the update calls since new or clear, while all carried one list
    unmatched_run,   \* per track: the update calls in a row that left it unmatched
    created_ids,     \* the tracking ids create_track has assigned, in order
    \* ---- event bus (drone-tracker/src/events.rs) ----
    bus_history,     \* history: Vec<Event>
    bus_event_count, \* event_count
    bus_chan,        \* the broadcast channel behind sender
    bus_rx,          \* per subscriber: its receiver's position and what it received
    bus_pc,          \* per publisher: where its publish call stands
    bus_published,   \* the events of the publish calls, in the order of their pushes
    bus_calls,       \* the publish calls begun in this behaviour
    \* ---- update_drone_position run by concurrent tasks ----
    upd_pc,          \* per task: where its update_drone_position call stands
    last_sent,       \* per drone: the position of the last position event the tasks sent
    \* ---- convoy manager (drone-tracker/src/convoy.rs) ----
    formation,       \* formation: RwLock<Formation>
    order,           \* order: RwLock<Vec<DroneId>>
    offsets,         \* offsets: RwLock<HashMap<DroneId, FormationOffset>>
    convoy_pc,       \* per caller: where its set_formation or set_order call stands
    convoy_calls     \* the calls begun

persist_vars == <<db, guards, db_pending>>
engine_vars == <<drones, mission, reached, calls, alert_queue, last_op,
                 db, guards, db_pending>>
msg_vars == <<command_handler, invocations, last_text, text_count, parse_errors>>
hub_vars == <<clients, hub_chan, hub_rx, conn, incoming, frames, received,
              hub_published, reg_at, lagged, skipped, handshake_late, message_count,
              command_handler, invocations, last_text, text_count, parse_errors>>
api_vars == <<active_mission, mission_lock, api_pc, api_ret, api_calls>>
exec_vars == <<exec_mission, drone_progress, exec_last, exec_calls>>
task_vars == <<upd_pc, last_sent>>
convoy_vars == <<formation, order, offsets, convoy_pc, convoy_calls>>
bus_vars == <<bus_history, bus_event_count, bus_chan, bus_rx, bus_pc, bus_published,
              bus_calls>>
cv_vars == <<cv_config, tracks, next_id, frame_count, drone_associations, cv_last,
             cv_inputs, unmatched_run, created_ids>>
vars == <<drones, mission, reached, calls, alert_queue, last_op,
          db, guards, db_pending,
          clients, hub_chan, hub_rx, conn, incoming, frames, received,
          hub_published, reg_at, lagged, skipped, handshake_late, message_count,
          command_handler, invocations, last_text, text_count, parse_errors,
          active_mission, mission_lock, api_pc, api_ret, api_calls,
          exec_mission, drone_progress, exec_last, exec_calls,
          cv_config, tracks, next_id, frame_count, drone_associations, cv_last,
          cv_inputs, unmatched_run, created_ids,
          bus_history, bus_event_count, bus_chan, bus_rx, bus_pc, bus_published,
          bus_calls, upd_pc, last_sent,
          formation, order, offsets, convoy_pc, convoy_calls>>

None == "None"

(***************************************************************************)
(* Bounds of the model.                                                    *)
(***************************************************************************)
\* most engine operations called in one behaviour
MaxCalls == 6
\* most engine operations called in one behaviour of the composed system
SysMaxCalls == 2
\* most engine operations called in one behaviour of SpecAlerts
AlertMaxCalls == 3
\* most engine operations called in one behaviour of SpecPersist
PersistMaxCalls == 4
\* most engine operations called in one behaviour of SpecHistory
HistoryMaxCalls == 3
\* most engine operations called in one behaviour of SpecProgress
ProgressMaxCalls == 4

(***************************************************************************)
(* Small helpers.                                                          *)
(***************************************************************************)
Range(s) == {s[i] : i \in DOMAIN s}

Min(a, b) == IF a < b THEN a ELSE b

Max(a, b) == IF a > b THEN a ELSE b

(***************************************************************************)
(* Tracking engine: inputs.                                                *)
(***************************************************************************)
DroneIds == {"REAPER-01", "REAPER-02"}

\* GeoPosition::default(), the position of a Drone::new
DefaultPosition == "origin"

\* Telemetry::default(): battery and fuel at 100
DefaultTelemetry == [battery_level |-> 100, fuel_level |-> 100]

\* Named positions: A = (34.50, 69.20), B = (34.60, 69.10),
\* nearA = (34.5005, 69.20), offA = (34.501, 69.20), beyondA = (34.40, 69.30).
\* Updates report nearA (55 m from A), offA (111 m from A) or B. beyondA lies
\* on the far side of A from B: farther from A than B is, and farther from
\* B than A is.
UpdatePositions == {"nearA", "offA", "B"}

Telemetries == {[battery_level |-> 40, fuel_level |-> 40],
                [battery_level |-> 10, fuel_level |-> 20]}

\* Telemetry on both sides of, and at, each battery and fuel threshold
AlertTelemetries ==
    {[battery_level |-> b, fuel_level |-> f] : b \in {14, 15, 29, 30},
                                              f \in {9, 10, 24, 25}}

\* GeoPosition::distance_to (haversine, Earth radius 6371 km) on the named
\* positions, times 1000 and truncated: the distance in whole meters.
distance_meters(p, q) ==
    IF p = q THEN 0
    ELSE CASE {p, q} = {"A", "B"}      -> 14405
           [] {p, q} = {"A", "nearA"}  -> 55
           [] {p, q} = {"A", "offA"}   -> 111
           [] {p, q} = {"B", "nearA"}  -> 14362
           [] {p, q} = {"B", "offA"}   -> 14319
           [] {p, q} = {"nearA", "offA"} -> 55
           [] {p, q} = {"origin", "A"} -> 8115355
           [] {p, q} = {"origin", "B"} -> 8108751
           [] {p, q} = {"origin", "nearA"} -> 8115367
           [] {p, q} = {"origin", "offA"} -> 8115379
           [] {p, q} = {"A", "beyondA"} -> 14412
           [] {p, q} = {"B", "beyondA"} -> 28818

\* Waypoint::new(id, name, lat, lng)
Waypoint(id, position) == [id |-> id, position |-> position]

\* Mission::new + add_waypoint + assign_drone; status is MissionStatus::default()
NewMission(id, waypoints, assigned) ==
    [id |-> id, status |-> "PLANNING", waypoints |-> waypoints,
     assigned_drones |-> assigned]

Missions ==
    { NewMission("M1", <<Waypoint("M1-WP1", "A"), Waypoint("M1-WP2", "B")>>,
                 {"REAPER-01", "REAPER-02"}),
      NewMission("M2", <<Waypoint("M2-WP1", "B")>>, {"REAPER-01"}),
      NewMission("M3", <<Waypoint("M3-WP1", "B"), Waypoint("M3-WP2", "A")>>,
                 {"REAPER-02"}) }

(***************************************************************************)
(* Tracking engine: configuration (TrackerConfig::default).                *)
(***************************************************************************)
waypoint_threshold_meters == 100
battery_warning_threshold == 30
battery_critical_threshold == 15
fuel_warning_threshold == 25
fuel_critical_threshold == 10
\* TrackedDrone::update_position keeps the last 100 positions
PositionHistoryCap == 100
\* mpsc::channel(256)
AlertChannelCapacity == 256

(***************************************************************************)
(* Tracking engine: events and alerts.                                     *)
(***************************************************************************)
\* Event::new draws a fresh Uuid for every event. An id is written
\* <<origin, call, k>>: the k-th event built by the call-th operation of origin.
Uuid(origin, call, k) == <<origin, call, k>>

\* Event::drone_position_updated
drone_position_updated(id, drone_id, position, telemetry) ==
    [id |-> id, event_type |-> "DRONE_POSITION_UPDATED", drone_id |-> drone_id,
     position |-> position, telemetry |-> telemetry]

\* Event::waypoint_reached
waypoint_reached(id, drone_id, waypoint_id, position) ==
    [id |-> id, event_type |-> "WAYPOINT_REACHED", drone_id |-> drone_id,
     waypoint_id |-> waypoint_id, position |-> position]

\* Alert::new(severity, type, message).for_drone(id)
NewAlert(severity, alert_type, drone_id) ==
    [severity |-> severity, alert_type |-> alert_type, drone_id |-> drone_id]

\* DroneTracker::new binds the alert receiver to a local (_alert_rx) that is
\* dropped when new returns: the channel is closed from then on.
alert_rx_open == FALSE

\* mpsc::Sender::try_send: Closed when the receiver is gone, Full at capacity
try_send(queue, alert) ==
    IF ~alert_rx_open THEN queue
    ELSE IF Len(queue) >= AlertChannelCapacity THEN queue
    ELSE Append(queue, alert)

RECURSIVE try_send_all(_, _)
try_send_all(queue, alerts) ==
    IF alerts = <<>> THEN queue
    ELSE try_send_all(try_send(queue, Head(alerts)), Tail(alerts))

(***************************************************************************)
(* Tracking engine: TrackedDrone.                                          *)
(***************************************************************************)
\* TrackedDrone::new(Drone::new(id, callsign))
TrackedDroneNew(id) ==
    [id |-> id, position |-> DefaultPosition, telemetry |-> DefaultTelemetry,
     waypoint_index |-> 0, waypoint_progress |-> 0, position_history |-> <<>>]

\* An update_position that at the cap drops the new sample, not the oldest
update_position_dropping_newest(tracked, position, telemetry) ==
    [tracked EXCEPT
        !.position = position,
        !.telemetry = telemetry,
        !.position_history =
            IF Len(@) >= PositionHistoryCap THEN @ ELSE Append(@, position)]

\* TrackedDrone::update_position
update_position(tracked, position, telemetry) ==
    LET pushed == Append(tracked.position_history, position)
    IN [tracked EXCEPT
          !.position = position,
          !.telemetry = telemetry,
          !.position_history =
              IF Len(pushed) > PositionHistoryCap THEN Tail(pushed) ELSE pushed]

\* check_waypoint_progress without the progress reset on arrival
check_waypoint_progress_keeping_progress(tracked, m, call) ==
    IF tracked.waypoint_index >= Len(m.waypoints)
    THEN [tracked |-> tracked, events |-> <<>>]
    ELSE LET current_wp == m.waypoints[tracked.waypoint_index + 1]
             dm == distance_meters(tracked.position, current_wp.position)
         IN IF dm < waypoint_threshold_meters
            THEN [tracked |-> [tracked EXCEPT !.waypoint_index = @ + 1],
                  events |-> <<waypoint_reached(Uuid("tracker", call, 1),
                                                tracked.id, current_wp.id,
                                                tracked.position)>>]
            ELSE IF tracked.waypoint_index > 0
            THEN LET prev_wp == m.waypoints[tracked.waypoint_index]
                     total_distance ==
                         distance_meters(prev_wp.position, current_wp.position)
                 IN [tracked |->
                        IF total_distance > 0
                        THEN [tracked EXCEPT !.waypoint_progress =
                                 1000 - ((dm * 1000) \div total_distance)]
                        ELSE tracked,
                     events |-> <<>>]
            ELSE [tracked |-> tracked, events |-> <<>>]

\* DroneTracker::check_waypoint_progress: the tracked drone after the call and
\* the events it sent (call numbers their ids). waypoint_progress is kept in
\* thousandths.
check_waypoint_progress(tracked, m, call) ==
    IF tracked.waypoint_index >= Len(m.waypoints)
    THEN [tracked |-> tracked, events |-> <<>>]
    ELSE LET current_wp == m.waypoints[tracked.waypoint_index + 1]
             dm == distance_meters(tracked.position, current_wp.position)
         IN IF dm < waypoint_threshold_meters
            THEN [tracked |-> [tracked EXCEPT !.waypoint_index = @ + 1,
                                              !.waypoint_progress = 0],
                  events |-> <<waypoint_reached(Uuid("tracker", call, 1),
                                                tracked.id, current_wp.id,
                                                tracked.position)>>]
            ELSE IF tracked.waypoint_index > 0
            THEN LET prev_wp == m.waypoints[tracked.waypoint_index]
                     total_distance ==
                         distance_meters(prev_wp.position, current_wp.position)
                     remaining == dm
                 IN [tracked |->
                        IF total_distance > 0
                        THEN [tracked EXCEPT !.waypoint_progress =
                                 1000 - ((remaining * 1000) \div total_distance)]
                        ELSE tracked,
                     events |-> <<>>]
            ELSE [tracked |-> tracked, events |-> <<>>]

\* check_alerts with the battery thresholds compared by <= instead of <
check_alerts_inclusive(tracked) ==
    (IF tracked.telemetry.battery_level <= battery_critical_threshold
     THEN <<NewAlert("CRITICAL", "BATTERY_LOW", tracked.id)>>
     ELSE IF tracked.telemetry.battery_level <= battery_warning_threshold
     THEN <<NewAlert("WARNING", "BATTERY_LOW", tracked.id)>>
     ELSE <<>>)
    \o
    (IF tracked.telemetry.fuel_level < fuel_critical_threshold
     THEN <<NewAlert("CRITICAL", "FUEL_LOW", tracked.id)>>
     ELSE <<>>)

\* DroneTracker::check_alerts: the alerts it builds, in the order it sends them
check_alerts(tracked) ==
    (IF tracked.telemetry.battery_level < battery_critical_threshold
     THEN <<NewAlert("CRITICAL", "BATTERY_LOW", tracked.id)>>
     ELSE IF tracked.telemetry.battery_level < battery_warning_threshold
     THEN <<NewAlert("WARNING", "BATTERY_LOW", tracked.id)>>
     ELSE <<>>)
    \o
    (IF tracked.telemetry.fuel_level < fuel_critical_threshold
     THEN <<NewAlert("CRITICAL", "FUEL_LOW", tracked.id)>>
     ELSE <<>>)

\* One id per accepted WebSocket connection (Uuid::new_v4 in handle_connection)
ConnIds == {"c1", "c2"}

\* Connections that are registered with the hub and hold a live receiver
Receivers == {c \in ConnIds : conn[c] \in {"registered", "forwarding"}}

(***************************************************************************)
(* Tracking engine: operations.                                            *)
(***************************************************************************)
\* DroneTracker::register_drone: DashMap::insert replaces an existing entry
register_drone(map, id) ==
    [x \in DOMAIN map \cup {id} |-> IF x = id THEN TrackedDroneNew(id) ELSE map[x]]

\* DashMap::insert waits while another task holds a guard on the entry
RegisterDrone ==
    \E id \in DroneIds :
        /\ calls < MaxCalls
        /\ id \notin guards
        /\ calls' = calls + 1
        /\ drones' = register_drone(drones, id)
        /\ last_op' = [op |-> "register_drone", drone_id |-> id, events |-> <<>>]
        /\ UNCHANGED <<mission, reached, alert_queue, persist_vars>>
        /\ UNCHANGED <<hub_vars, cv_vars, api_vars, exec_vars,
                       bus_vars, task_vars, convoy_vars>>

\* DroneTracker::set_mission: the slot, as Option<Mission>, after the call
set_mission(slot, m) == <<m>>

SetMission ==
    \E m \in Missions :
        /\ calls < MaxCalls
        /\ calls' = calls + 1
        /\ mission' = set_mission(mission, m)
        /\ last_op' = [op |-> "set_mission", mission_id |-> m.id, events |-> <<>>]
        /\ UNCHANGED <<drones, reached, alert_queue, persist_vars>>
        /\ UNCHANGED <<hub_vars, cv_vars, api_vars, exec_vars,
                       bus_vars, task_vars, convoy_vars>>

\* The events update_drone_position passes to event_tx.send, in order
update_events(r, call, drone_id, position, telemetry) ==
    r.events \o <<drone_position_updated(Uuid("tracker", call, 2), drone_id,
                                         position, telemetry)>>

\* The arguments update_drone_position passes to TelemetryRepository::insert
telemetry_insert(drone_id, position, telemetry, slot) ==
    [drone_id |-> drone_id, position |-> position, telemetry |-> telemetry,
     mission_id |-> IF slot = <<>> THEN None ELSE slot[1].id]

\* A lookup that answers an id that has no entry with a new record
get_mut_or_insert(map, drone_id) ==
    IF drone_id \in DOMAIN map THEN <<map[drone_id]>> ELSE <<TrackedDroneNew(drone_id)>>

\* DashMap::get_mut, as Option: <<entry>> or <<>>
get_mut(map, drone_id) ==
    IF drone_id \in DOMAIN map THEN <<map[drone_id]>> ELSE <<>>

\* DroneTracker::update_drone_position, the position and the telemetry
\* drawn from the given sets. drones.get_mut waits while another task holds
\* a guard on the entry. With db None the call runs to its end in this
\* step. With db Some it runs up to the await of the insert: the guard
\* `tracked` lives to the end of the if-let block and is still held while
\* the insert is pending.
UpdateDronePositionOf(positions, telemetries) ==
    \E drone_id \in DroneIds, position \in positions, telemetry \in telemetries :
        /\ calls < MaxCalls
        /\ drone_id \notin guards
        /\ calls' = calls + 1
        /\ IF get_mut(drones, drone_id) # <<>>
           THEN LET moved == update_position(get_mut(drones, drone_id)[1],
                                             position, telemetry)
                    r == IF mission # <<>>
                         THEN check_waypoint_progress(moved, mission[1], calls + 1)
                         ELSE [tracked |-> moved, events |-> <<>>]
                IN /\ drones' = [x \in DOMAIN drones \cup {drone_id} |->
                                    IF x = drone_id THEN r.tracked ELSE drones[x]]
                   /\ alert_queue' = try_send_all(alert_queue, check_alerts(r.tracked))
                   /\ reached' = [reached EXCEPT ![drone_id] =
                          @ \cup {r.events[i].waypoint_id : i \in DOMAIN r.events}]
                   /\ last_op' = [op |-> "update_drone_position", drone_id |-> drone_id,
                                  events |-> update_events(r, calls + 1, drone_id,
                                                           position, telemetry),
                                  alerts |-> check_alerts(r.tracked),
                                  result |-> "Ok",
                                  connected |-> Receivers]
                   /\ IF db = None
                      THEN UNCHANGED <<guards, db_pending>>
                      ELSE /\ guards' = guards \cup {drone_id}
                           /\ db_pending' = db_pending \cup
                                  {telemetry_insert(drone_id, position, telemetry,
                                                    mission)}
           ELSE /\ UNCHANGED <<drones, alert_queue, reached, guards, db_pending>>
                /\ last_op' = [op |-> "update_drone_position", drone_id |-> drone_id,
                               events |-> <<>>, alerts |-> <<>>,
                               result |-> "Ok",
                               connected |-> Receivers]
        /\ UNCHANGED <<mission, db>>
        /\ UNCHANGED <<hub_vars, cv_vars, api_vars, exec_vars,
                       bus_vars, task_vars, convoy_vars>>

\* The same, the position drawn from UpdatePositions
UpdateDronePositionWith(telemetries) == UpdateDronePositionOf(UpdatePositions, telemetries)

UpdateDronePosition == UpdateDronePositionWith(Telemetries)

\* update_drone_position resumed: the insert has returned Ok or Err (an Err
\* is logged), the if-let block ends and the guard on the entry is dropped
TelemetryInsertReturns ==
    \E p \in db_pending :
        /\ db_pending' = db_pending \ {p}
        /\ guards' = guards \ {p.drone_id}
        /\ UNCHANGED <<drones, mission, reached, calls, alert_queue, last_op, db>>
        /\ UNCHANGED <<hub_vars, cv_vars, api_vars, exec_vars,
                       bus_vars, task_vars, convoy_vars>>

\* DroneTracker::set_database (&mut self: no other call is in progress)
SetDatabase ==
    /\ db = None
    /\ guards = {}
    /\ db' = "DbClient"
    /\ UNCHANGED <<drones, mission, reached, calls, alert_queue, last_op,
                   guards, db_pending>>
    /\ UNCHANGED <<hub_vars, cv_vars, api_vars, exec_vars,
                   bus_vars, task_vars, convoy_vars>>

\* DroneTracker::get_drone: drones.get waits while a guard is held on the entry
GetDrone ==
    \E id \in DroneIds :
        /\ calls < MaxCalls
        /\ id \notin guards
        /\ calls' = calls + 1
        /\ last_op' = [op |-> "get_drone", drone_id |-> id, events |-> <<>>,
                       result |-> IF id \in DOMAIN drones THEN <<drones[id]>> ELSE <<>>]
        /\ UNCHANGED <<drones, mission, reached, alert_queue, persist_vars>>
        /\ UNCHANGED <<hub_vars, cv_vars, api_vars, exec_vars,
                       bus_vars, task_vars, convoy_vars>>

\* DroneTracker::get_all_drones: drones.iter() visits every entry and waits
\* at one that is held
GetAllDrones ==
    /\ calls < MaxCalls
    /\ guards = {}
    /\ calls' = calls + 1
    /\ last_op' = [op |-> "get_all_drones", events |-> <<>>,
                   result |-> {drones[id] : id \in DOMAIN drones}]
    /\ UNCHANGED <<drones, mission, reached, alert_queue, persist_vars>>
    /\ UNCHANGED <<hub_vars, cv_vars, api_vars, exec_vars,
                   bus_vars, task_vars, convoy_vars>>

\* DroneTracker::drone_count
drone_count == Cardinality(DOMAIN drones)

\* DroneTracker::new
InitEngine ==
    /\ drones = [x \in {} |-> 0]
    /\ mission = <<>>
    /\ reached = [id \in DroneIds |-> {}]
    /\ calls = 0
    /\ alert_queue = <<>>
    /\ last_op = [op |-> "new", events |-> <<>>]
    /\ db = None
    /\ guards = {}
    /\ db_pending = {}

NextEngine ==
    \/ RegisterDrone
    \/ SetMission
    \/ UpdateDronePosition


(***************************************************************************)
(* Visual tracker (drone-cv/src/tracker.rs).                               *)
(*                                                                         *)
(* Detections are drawn from circles whose centres are either equal or so  *)
(* far apart that their IoU is below the threshold, so a track is only     *)
(* ever matched to a detection at its own centre. The Kalman state of a    *)
(* track is then exactly [x, y, 0, 0] throughout (zero residual, zero      *)
(* velocity); see DetectionCentresSeparate.                               *)
(***************************************************************************)
\* most update calls in one behaviour
MaxFrames == 5

\* TrackingConfig::default().iou_threshold = 0.3, in thousandths
iou_threshold == 300
\* f64::MAX, the cost of a disallowed pair
CostMax == 1000000

\* DetectedHalo::new(center_x, center_y, radius)
DetectedHalo(x, y, r) == [center_x |-> x, center_y |-> y, radius |-> r]

DetectionKinds == {DetectedHalo(100, 100, 60), DetectedHalo(200, 100, 60)}

\* The frames fed to update: no detection, one, or two (also the same twice)
DetectionLists == {<<>>} \cup {<<a>> : a \in DetectionKinds}
                      \cup {<<a, b>> : a, b \in DetectionKinds}

CvDroneIds == {"REAPER-01"}

\* DroneTracker::calculate_circle_iou, in thousandths (truncated). The lens
\* formula of the partial-overlap case is tabulated for the one pair of
\* circles of DetectionKinds that overlaps partially (d = 100, r1 = r2 = 60:
\* 0.04145).
calculate_circle_iou(x1, y1, r1, x2, y2, r2) ==
    LET dx == x2 - x1
        dy == y2 - y1
        d2 == dx * dx + dy * dy
    IN IF d2 >= (r1 + r2) * (r1 + r2) THEN 0
       ELSE IF d2 <= (r1 - r2) * (r1 - r2)
       THEN (Min(r1, r2) * Min(r1, r2) * 1000) \div (Max(r1, r2) * Max(r1, r2))
       ELSE 41

\* KalmanTracker::new + initialize(x, y). steps counts the prediction steps
\* (state and covariance advanced by one dt) that the filter has taken
\* within the update call of the tracker that is in progress.
kalman_initialize(x, y) == [x |-> x, y |-> y, vx |-> 0, vy |-> 0, steps |-> 0]

\* KalmanTracker::predict: x' = x + vx*dt, y' = y + vy*dt (dt = 1/30), and
\* P = F*P*F' + Q
kalman_predict(k) ==
    [k EXCEPT !.x = k.x + (k.vx \div 30), !.y = k.y + (k.vy \div 30),
              !.steps = @ + 1]

\* KalmanTracker::update: predicts, then corrects the state by gain * residual.
\* The residual is zero in every call reached here (DetectionCentresSeparate),
\* so the correction is zero whatever the gain; it is written with gain 1.
kalman_update(k, mx, my) ==
    LET p == kalman_predict(k)
    IN [p EXCEPT !.x = p.x + (mx - p.x), !.y = p.y + (my - p.y)]

\* The cost matrix entry of associate_detections
association_cost(track, detection) ==
    LET iou == calculate_circle_iou(track.kalman.x, track.kalman.y,
                                    track.last_detection.radius,
                                    detection.center_x, detection.center_y,
                                    detection.radius)
    IN IF iou > iou_threshold THEN 1000 - iou ELSE CostMax

\* One round of the greedy loop: the free pair the scan of
\* (t_idx, d_idx) ends on, i.e. the first pair in scan order of least cost
\* (the comparison is a strict <), or <<>> when min_cost stays f64::MAX.
greedy_pick(cost, assigned_tracks, assigned_detections) ==
    LET free == {p \in DOMAIN cost :
                    /\ p[1] \notin assigned_tracks
                    /\ p[2] \notin assigned_detections
                    /\ cost[p] < CostMax}
    IN IF free = {} THEN <<>>
       ELSE CHOOSE p \in free :
               \A q \in free :
                   \/ cost[p] < cost[q]
                   \/ /\ cost[p] = cost[q]
                      /\ \/ p[1] < q[1]
                         \/ (p[1] = q[1] /\ p[2] <= q[2])

RECURSIVE greedy_loop(_, _, _, _, _)
greedy_loop(cost, track_ids, associations, assigned_tracks, assigned_detections) ==
    LET pick == greedy_pick(cost, assigned_tracks, assigned_detections)
    IN IF pick = <<>> THEN associations
       ELSE greedy_loop(cost, track_ids,
                        [id \in DOMAIN associations \cup {track_ids[pick[1]]} |->
                            IF id = track_ids[pick[1]] THEN pick[2]
                            ELSE associations[id]],
                        assigned_tracks \cup {pick[1]},
                        assigned_detections \cup {pick[2]})

\* DroneTracker::associate_detections. track_ids is self.tracks.keys() in the
\* order the HashMap yields them; the result maps tracking id -> detection index.
associate_detections(trks, track_ids, detections) ==
    IF DOMAIN trks = {} \/ detections = <<>> THEN [id \in {} |-> 0]
    ELSE LET cost == [p \in (1..Len(track_ids)) \X (1..Len(detections)) |->
                         association_cost(trks[track_ids[p[1]]], detections[p[2]])]
         IN greedy_loop(cost, track_ids, [id \in {} |-> 0], {}, {})

\* The orders in which a HashMap with these keys may be iterated
KeyOrders(keys) ==
    {o \in [1..Cardinality(keys) -> keys] : \A i, j \in DOMAIN o : i # j => o[i] # o[j]}

\* Step 3 of update: a matched track takes the detection
update_matched(track, detection, cfg) ==
    LET t == [track EXCEPT
                 !.kalman = kalman_update(track.kalman, detection.center_x,
                                          detection.center_y),
                 !.last_detection = detection,
                 !.frames_since_detection = 0,
                 !.consecutive_detections = @ + 1]
    IN IF ~t.confirmed /\ t.consecutive_detections >= cfg.min_frames_to_confirm
       THEN [t EXCEPT !.confirmed = TRUE]
       ELSE t

\* DroneTracker::create_track
create_track(tracking_id, detection) ==
    [tracking_id |-> tracking_id,
     kalman |-> kalman_initialize(detection.center_x, detection.center_y),
     last_detection |-> detection,
     frames_since_detection |-> 0,
     consecutive_detections |-> 1,
     confirmed |-> FALSE]

\* Step 4 of update with a track created while tracks.len() <= max_tracks
RECURSIVE create_unmatched_past_cap(_, _, _, _, _, _)
create_unmatched_past_cap(trks, nid, detections, idx, matched_detections, cfg) ==
    IF idx > Len(detections) THEN [tracks |-> trks, next_id |-> nid, ids |-> <<>>]
    ELSE IF idx \notin matched_detections /\ Cardinality(DOMAIN trks) <= cfg.max_tracks
    THEN LET rest == create_unmatched_past_cap(
                 [id \in DOMAIN trks \cup {nid} |->
                     IF id = nid THEN create_track(nid, detections[idx]) ELSE trks[id]],
                 nid + 1, detections, idx + 1, matched_detections, cfg)
         IN [rest EXCEPT !.ids = <<nid>> \o @]
    ELSE create_unmatched_past_cap(trks, nid, detections, idx + 1,
                                   matched_detections, cfg)

\* Step 4 of update: unmatched detections, in order, create tracks while
\* tracks.len() < max_tracks. ids lists the tracking ids that create_track
\* assigned, in the order of the calls.
RECURSIVE create_unmatched(_, _, _, _, _, _)
create_unmatched(trks, nid, detections, idx, matched_detections, cfg) ==
    IF idx > Len(detections) THEN [tracks |-> trks, next_id |-> nid, ids |-> <<>>]
    ELSE IF idx \notin matched_detections /\ Cardinality(DOMAIN trks) < cfg.max_tracks
    THEN LET rest == create_unmatched(
                 [id \in DOMAIN trks \cup {nid} |->
                     IF id = nid THEN create_track(nid, detections[idx]) ELSE trks[id]],
                 nid + 1, detections, idx + 1, matched_detections, cfg)
         IN [rest EXCEPT !.ids = <<nid>> \o @]
    ELSE create_unmatched(trks, nid, detections, idx + 1, matched_detections, cfg)

\* Step 5 with a track retired only once it is past max_frames_to_skip
stale_ids_past_limit(trks, associations, cfg) ==
    {id \in DOMAIN trks :
        /\ id \notin DOMAIN associations
        /\ trks[id].frames_since_detection > cfg.max_frames_to_skip}

\* Step 5 of update: the ids it removes
stale_ids(trks, associations, cfg) ==
    {id \in DOMAIN trks :
        /\ id \notin DOMAIN associations
        /\ trks[id].frames_since_detection >= cfg.max_frames_to_skip}

\* Step 5 of update: a surviving unmatched track
bump_unmatched(track) ==
    [track EXCEPT !.frames_since_detection = @ + 1, !.consecutive_detections = 0]

\* The ActiveTrack built for a confirmed track
ActiveTrack(track, assoc) ==
    [tracking_id |-> track.tracking_id,
     drone_id |-> IF track.tracking_id \in DOMAIN assoc
                  THEN assoc[track.tracking_id] ELSE None,
     last_detection |-> track.last_detection,
     frames_since_seen |-> track.frames_since_detection]

\* The output of update with every track exported, confirmed or not
active_tracks_unfiltered(trks, assoc) ==
    {ActiveTrack(trks[id], assoc) : id \in DOMAIN trks}

\* The output of update: the ActiveTracks of the confirmed tracks
active_tracks(trks, assoc) ==
    {ActiveTrack(trks[id], assoc) : id \in {i \in DOMAIN trks : trks[i].confirmed}}

\* DroneTracker::update: the tracker after the call, the associations it
\* computed and the list it returns (as a set: the Vec's order is the
\* HashMap's).
cv_update(trks, nid, assoc, cfg, detections, track_ids) ==
    LET predicted == [id \in DOMAIN trks |->
                         [trks[id] EXCEPT !.kalman = kalman_predict(@)]]
        associations == associate_detections(predicted, track_ids, detections)
        matched == [id \in DOMAIN predicted |->
                       IF id \in DOMAIN associations
                       THEN update_matched(predicted[id], detections[associations[id]], cfg)
                       ELSE predicted[id]]
        matched_detections == {associations[id] : id \in DOMAIN associations}
        created == create_unmatched(matched, nid, detections, 1, matched_detections, cfg)
        stale == stale_ids(created.tracks, associations, cfg)
        kept == [id \in DOMAIN created.tracks \ stale |->
                    LET t == IF id \in DOMAIN associations THEN created.tracks[id]
                             ELSE bump_unmatched(created.tracks[id])
                    IN [t EXCEPT !.kalman.steps = 0]]
        kept_assoc == [id \in DOMAIN assoc \ stale |-> assoc[id]]
    IN [tracks |-> kept,
        next_id |-> created.next_id,
        drone_associations |-> kept_assoc,
        associations |-> associations,
        removed |-> stale,
        created |-> created.ids,
        predicts |-> [id \in DOMAIN trks |-> created.tracks[id].kalman.steps],
        result |-> active_tracks(kept, kept_assoc)]

\* The record of the update calls made since the tracker was empty (new or
\* clear): how many there were and the detection list they all carried;
\* void from the first call that carries another list.
NoInputs == [same |-> TRUE, n |-> 0, detections |-> <<>>]

VoidInputs == [same |-> FALSE, n |-> 0, detections |-> <<>>]

record_input(inputs, detections) ==
    IF ~inputs.same THEN VoidInputs
    ELSE IF inputs.n = 0 THEN [same |-> TRUE, n |-> 1, detections |-> detections]
    ELSE IF inputs.detections = detections THEN [inputs EXCEPT !.n = @ + 1]
    ELSE VoidInputs

\* What cv_last holds after a call other than update
NoUpdate(op) ==
    [op |-> op, detections |-> <<>>, associations |-> [id \in {} |-> 0],
     removed |-> {}, result |-> {}, predicts |-> [id \in {} |-> 0],
     run_before |-> [id \in {} |-> 0]]

\* DroneTracker::active_count
active_count == Cardinality({id \in DOMAIN tracks : tracks[id].confirmed})

\* DroneTracker::total_count
total_count == Cardinality(DOMAIN tracks)

CvUpdate ==
    \E detections \in DetectionLists, track_ids \in KeyOrders(DOMAIN tracks) :
        /\ frame_count < MaxFrames
        /\ \E r \in {cv_update(tracks, next_id, drone_associations, cv_config,
                                detections, track_ids)} :
              /\ tracks' = r.tracks
              /\ next_id' = r.next_id
              /\ drone_associations' = r.drone_associations
              /\ frame_count' = frame_count + 1
              /\ cv_inputs' = record_input(cv_inputs, detections)
              /\ created_ids' = created_ids \o r.created
              /\ unmatched_run' =
                     [id \in DOMAIN r.tracks |->
                         IF id \in DOMAIN tracks /\ id \notin DOMAIN r.associations
                         THEN unmatched_run[id] + 1 ELSE 0]
              /\ cv_last' = [op |-> "update", detections |-> detections,
                             associations |-> r.associations,
                             removed |-> r.removed, result |-> r.result,
                             predicts |-> r.predicts,
                             run_before |-> unmatched_run]
        /\ UNCHANGED cv_config
        /\ UNCHANGED <<engine_vars, hub_vars, api_vars, exec_vars,
                       bus_vars, task_vars, convoy_vars>>

\* DroneTracker::associate_drone
CvAssociateDrone ==
    \E tracking_id \in DOMAIN tracks, drone_id \in CvDroneIds :
        /\ drone_associations' =
               [id \in DOMAIN drone_associations \cup {tracking_id} |->
                   IF id = tracking_id THEN drone_id ELSE drone_associations[id]]
        /\ cv_last' = NoUpdate("associate_drone")
        /\ UNCHANGED <<cv_config, tracks, next_id, frame_count, cv_inputs, unmatched_run,
                       created_ids>>
        /\ UNCHANGED <<engine_vars, hub_vars, api_vars, exec_vars,
                       bus_vars, task_vars, convoy_vars>>

\* A clear that also restarts the id counter
clear_restarting_ids(trks, nid, assoc) ==
    [tracks |-> [id \in {} |-> 0], next_id |-> 1,
     drone_associations |-> [id \in {} |-> 0]]

\* DroneTracker::clear: the tracker after the call
clear(trks, nid, assoc) ==
    [tracks |-> [id \in {} |-> 0], next_id |-> nid,
     drone_associations |-> [id \in {} |-> 0]]

\* DroneTracker::clear
CvClear ==
    /\ LET r == clear(tracks, next_id, drone_associations)
       IN /\ tracks' = r.tracks
          /\ next_id' = r.next_id
          /\ drone_associations' = r.drone_associations
    /\ cv_inputs' = NoInputs
    /\ unmatched_run' = [id \in {} |-> 0]
    /\ cv_last' = NoUpdate("clear")
    /\ UNCHANGED <<cv_config, frame_count, created_ids>>
    /\ UNCHANGED <<engine_vars, hub_vars, api_vars, exec_vars,
                   bus_vars, task_vars, convoy_vars>>

\* The fields of TrackingConfig that the tracker reads
TrackingConfig(min_frames_to_confirm, max_frames_to_skip, max_tracks) ==
    [min_frames_to_confirm |-> min_frames_to_confirm,
     max_frames_to_skip |-> max_frames_to_skip,
     max_tracks |-> max_tracks]

\* The configurations a tracker is constructed with
TrackingConfigs ==
    {TrackingConfig(1, 1, 2), TrackingConfig(2, 2, 2), TrackingConfig(3, 1, 1),
     TrackingConfig(1, 0, 2)}

\* DroneTracker::new(&config)
InitCvWith(cfg) ==
    /\ cv_config = cfg
    /\ tracks = [id \in {} |-> 0]
    /\ next_id = 1
    /\ frame_count = 0
    /\ drone_associations = [id \in {} |-> 0]
    /\ cv_inputs = NoInputs
    /\ unmatched_run = [id \in {} |-> 0]
    /\ created_ids = <<>>
    /\ cv_last = NoUpdate("new")

InitCv == \E cfg \in TrackingConfigs : InitCvWith(cfg)

NextCv ==
    \/ CvUpdate
    \/ CvAssociateDrone
    \/ CvClear


\* Two circles of DetectionKinds with different centres never pass the IoU
\* threshold: a track is never matched to a detection at another centre.
DetectionCentresSeparate ==
    \A a, b \in DetectionKinds :
        (a.center_x # b.center_x \/ a.center_y # b.center_y) =>
            calculate_circle_iou(a.center_x, a.center_y, a.radius,
                                 b.center_x, b.center_y, b.radius) <= iou_threshold

(***************************************************************************)
(* Subscriber hub (drone-websocket/src/hub.rs, lib.rs).                    *)
(***************************************************************************)
\* most events passed to WebSocketHub::broadcast in one behaviour
MaxBroadcasts == 3
\* BROADCAST_CAPACITY (1024 in hub.rs), scaled down so that lag is reached
BroadcastCapacity == 2

\* Option<Vec<DroneId>> of Subscribe / Unsubscribe: <<>> is None, <<S>> is Some(S)
DroneIdOptions == {<<>>, <<{"REAPER-01"}>>}

\* run_simulation's drone list, in its order
SimDrones == <<"REAPER-01", "REAPER-02">>

\* The drone of run_simulation's n-th broadcast
SimDroneOf(n) == SimDrones[((n - 1) % Len(SimDrones)) + 1]

\* The event run_simulation builds for a drone in its n-th broadcast
SimEvent(n, drone_id) ==
    drone_position_updated(Uuid("simulation", n, 1), drone_id, "A", DefaultTelemetry)

\* usize::next_power_of_two
RECURSIVE next_power_of_two_from(_, _)
next_power_of_two_from(p, n) == IF p >= n THEN p ELSE next_power_of_two_from(2 * p, n)

next_power_of_two(n) == next_power_of_two_from(1, n)

\* broadcast::channel(capacity) rounds the capacity up to a power of two
\* (BROADCAST_CAPACITY, 1024, is one): the number of values the channel retains
channel_capacity(capacity) == next_power_of_two(capacity)

\* broadcast::channel(capacity)
broadcast_channel == [buf |-> <<>>, tail |-> 0]

\* Position of the oldest retained value
chan_head(chan) == chan.tail - Len(chan.buf)

\* A send that stores nothing once the buffer holds capacity values
broadcast_send_bounded(chan, receiver_count, event, capacity) ==
    IF receiver_count = 0 \/ Len(chan.buf) >= capacity THEN chan
    ELSE [buf |-> Append(chan.buf, event), tail |-> chan.tail + 1]

\* broadcast::Sender::send: with no receiver the value is returned in the
\* error and not stored; otherwise it is stored and the oldest value is
\* overwritten once the buffer holds capacity values.
broadcast_send(chan, receiver_count, event, capacity) ==
    IF receiver_count = 0 THEN chan
    ELSE LET pushed == Append(chan.buf, event)
         IN [buf |-> IF Len(pushed) > capacity THEN Tail(pushed) ELSE pushed,
             tail |-> chan.tail + 1]

\* A subscribe that starts the new receiver at the oldest retained value
broadcast_subscribe_at_head(chan) == chan_head(chan)

\* broadcast::Sender::subscribe: the new receiver's next position
broadcast_subscribe(chan) == chan.tail

\* A recv that on a lag moves the receiver past every retained value
broadcast_recv_lag_to_tail(chan, next) ==
    IF next < chan_head(chan)
    THEN [kind |-> "Lagged", n |-> chan.tail - next, next |-> chan.tail]
    ELSE [kind |-> "Ok", event |-> chan.buf[next - chan_head(chan) + 1],
          next |-> next + 1]

\* broadcast::Receiver::recv when a value or a lag is due (next < tail):
\* Lagged(n) moves the receiver to the oldest retained value.
broadcast_recv(chan, next) ==
    IF next < chan_head(chan)
    THEN [kind |-> "Lagged", n |-> chan_head(chan) - next, next |-> chan_head(chan)]
    ELSE [kind |-> "Ok", event |-> chan.buf[next - chan_head(chan) + 1],
          next |-> next + 1]

\* WebSocketHub::register_client: the client map after the insert
register_client(map, client_id) ==
    [c \in DOMAIN map \cup {client_id} |->
        IF c = client_id THEN [subscriptions |-> <<>>] ELSE map[c]]

\* WebSocketHub::unregister_client
unregister_client(map, client_id) == [c \in DOMAIN map \ {client_id} |-> map[c]]

\* WebSocketHub::client_count
client_count == Cardinality(DOMAIN clients)

\* WebSocketHub::subscribe
hub_subscribe(map, client_id, drone_ids) ==
    IF client_id \in DOMAIN map
    THEN [map EXCEPT ![client_id].subscriptions = drone_ids]
    ELSE map

\* WebSocketHub::unsubscribe
hub_unsubscribe(map, client_id, drone_ids) ==
    IF client_id \in DOMAIN map
    THEN IF drone_ids # <<>>
         THEN IF map[client_id].subscriptions # <<>>
              THEN [map EXCEPT ![client_id].subscriptions = <<@[1] \ drone_ids[1]>>]
              ELSE map
         ELSE [map EXCEPT ![client_id].subscriptions = <<{}>>]
    ELSE map

\* handle_connection up to register_client: accept_async fails and the
\* function returns, or the client is registered and subscribed
HubAccept(c) ==
    /\ conn[c] = "idle"
    /\ \/ /\ conn' = [conn EXCEPT ![c] = "closed"]
          /\ UNCHANGED <<clients, hub_rx, reg_at>>
       \/ /\ clients' = register_client(clients, c)
          /\ hub_rx' = [hub_rx EXCEPT ![c] = broadcast_subscribe(hub_chan)]
          /\ reg_at' = [reg_at EXCEPT ![c] = Len(hub_published)]
          /\ conn' = [conn EXCEPT ![c] = "registered"]
    /\ UNCHANGED <<hub_chan, frames, received, hub_published, lagged, skipped,
                   handshake_late, message_count, incoming>>
    /\ UNCHANGED <<engine_vars, cv_vars, msg_vars, api_vars, exec_vars,
                   bus_vars, task_vars, convoy_vars>>

\* ServerMessage::InitialState(FullStateEvent { .. }) as handle_connection
\* builds it
initial_state ==
    [type |-> "InitialState", drones |-> <<>>, mission |-> <<>>,
     tracking_results |-> <<>>]

\* ServerMessage::Event(event)
event_message(event) == [type |-> "Event", event |-> event]

\* A handshake that starts the forward loop without sending InitialState
HubStartForwardLoop(c) ==
    /\ conn[c] = "registered"
    /\ conn' = [conn EXCEPT ![c] = "forwarding"]
    /\ incoming' = [incoming EXCEPT ![c] = "running"]
    /\ handshake_late' = [handshake_late EXCEPT ![c] = Len(hub_published) > reg_at[c]]
    /\ UNCHANGED <<clients, hub_chan, hub_rx, received, hub_published, reg_at,
                   lagged, skipped, message_count, frames>>
    /\ UNCHANGED <<engine_vars, cv_vars, msg_vars, api_vars, exec_vars,
                   bus_vars, task_vars, convoy_vars>>

\* handle_connection: the InitialState send. On failure the ? returns from
\* the function (the receiver is dropped, cleanup is not reached); on success
\* the incoming task is spawned and the forward loop starts.
HubSendInitialState(c) ==
    /\ conn[c] = "registered"
    /\ \/ /\ frames' = [frames EXCEPT ![c] = Append(@, initial_state)]
          /\ conn' = [conn EXCEPT ![c] = "forwarding"]
          /\ incoming' = [incoming EXCEPT ![c] = "running"]
          /\ handshake_late' = [handshake_late EXCEPT ![c] = Len(hub_published) > reg_at[c]]
       \/ /\ conn' = [conn EXCEPT ![c] = "closed"]
          /\ UNCHANGED <<frames, incoming, handshake_late>>
    /\ UNCHANGED <<clients, hub_chan, hub_rx, received, hub_published, reg_at,
                   lagged, skipped, message_count>>
    /\ UNCHANGED <<engine_vars, cv_vars, msg_vars, api_vars, exec_vars,
                   bus_vars, task_vars, convoy_vars>>

\* handle_connection: one round of the forward loop on the broadcast branch
HubForward(c) ==
    /\ conn[c] = "forwarding"
    /\ hub_rx[c] < hub_chan.tail
    /\ LET r == broadcast_recv(hub_chan, hub_rx[c])
       IN /\ hub_rx' = [hub_rx EXCEPT ![c] = r.next]
          /\ IF r.kind = "Lagged"
             THEN /\ lagged' = [lagged EXCEPT ![c] = TRUE]
                  /\ skipped' = [skipped EXCEPT ![c] = @ + r.n]
                  /\ UNCHANGED <<received, frames, conn, clients>>
             ELSE /\ received' = [received EXCEPT ![c] = Append(@, r.event)]
                  /\ UNCHANGED <<lagged, skipped>>
                  /\ \/ /\ frames' = [frames EXCEPT ![c] =
                               Append(@, event_message(r.event))]
                        /\ UNCHANGED <<conn, clients>>
                     \/ /\ conn' = [conn EXCEPT ![c] = "closed"]
                        /\ clients' = unregister_client(clients, c)
                        /\ UNCHANGED frames
    /\ UNCHANGED <<hub_chan, hub_published, reg_at, handshake_late, message_count,
                   incoming>>
    /\ UNCHANGED <<engine_vars, cv_vars, msg_vars, api_vars, exec_vars,
                   bus_vars, task_vars, convoy_vars>>

\* handle_connection: the forward loop sees the incoming task finished,
\* breaks and runs the cleanup
HubLoopExit(c) ==
    /\ conn[c] = "forwarding"
    /\ incoming[c] = "finished"
    /\ conn' = [conn EXCEPT ![c] = "closed"]
    /\ clients' = unregister_client(clients, c)
    /\ UNCHANGED <<hub_chan, hub_rx, frames, received, hub_published, reg_at,
                   lagged, skipped, handshake_late, message_count, incoming>>
    /\ UNCHANGED <<engine_vars, cv_vars, msg_vars, api_vars, exec_vars,
                   bus_vars, task_vars, convoy_vars>>

\* The incoming task: a Subscribe or Unsubscribe text frame
\* (handle_client_message)
IncomingSubscribe(c) ==
    \E drone_ids \in DroneIdOptions :
        /\ incoming[c] = "running"
        /\ clients' = hub_subscribe(clients, c, drone_ids)
        /\ UNCHANGED <<hub_chan, hub_rx, conn, frames, received, hub_published,
                       reg_at, lagged, skipped, handshake_late, message_count,
                       incoming>>
        /\ UNCHANGED <<engine_vars, cv_vars, msg_vars, api_vars, exec_vars,
                       bus_vars, task_vars, convoy_vars>>

IncomingUnsubscribe(c) ==
    \E drone_ids \in DroneIdOptions :
        /\ incoming[c] = "running"
        /\ clients' = hub_unsubscribe(clients, c, drone_ids)
        /\ UNCHANGED <<hub_chan, hub_rx, conn, frames, received, hub_published,
                       reg_at, lagged, skipped, handshake_late, message_count,
                       incoming>>
        /\ UNCHANGED <<engine_vars, cv_vars, msg_vars, api_vars, exec_vars,
                       bus_vars, task_vars, convoy_vars>>

\* The incoming task: a close frame, a receive error or the end of the stream
IncomingClose(c) ==
    /\ incoming[c] = "running"
    /\ incoming' = [incoming EXCEPT ![c] = "finished"]
    /\ UNCHANGED <<clients, hub_chan, hub_rx, conn, frames, received,
                   hub_published, reg_at, lagged, skipped, handshake_late,
                   message_count>>
    /\ UNCHANGED <<engine_vars, cv_vars, msg_vars, api_vars, exec_vars,
                   bus_vars, task_vars, convoy_vars>>

\* WebSocketHub::broadcast, as run_simulation calls it: for one drone after
\* the other, in the order of its drone list, round after round
HubBroadcast ==
    \E drone_id \in {SimDroneOf(Len(hub_published) + 1)} :
        /\ Len(hub_published) < MaxBroadcasts
        /\ LET event == SimEvent(Len(hub_published) + 1, drone_id)
           IN /\ message_count' = message_count + 1
              /\ hub_chan' = broadcast_send(hub_chan, Cardinality(Receivers), event,
                                            channel_capacity(BroadcastCapacity))
              /\ hub_published' = Append(hub_published, event)
        /\ UNCHANGED <<clients, hub_rx, conn, frames, received, reg_at, lagged,
                       skipped, handshake_late, incoming>>
        /\ UNCHANGED <<engine_vars, cv_vars, msg_vars, api_vars, exec_vars,
                       bus_vars, task_vars, convoy_vars>>

\* WebSocketHub::new, no connection accepted yet
InitHub ==
    /\ clients = [c \in {} |-> 0]
    /\ hub_chan = broadcast_channel
    /\ hub_rx = [c \in ConnIds |-> 0]
    /\ conn = [c \in ConnIds |-> "idle"]
    /\ incoming = [c \in ConnIds |-> "none"]
    /\ frames = [c \in ConnIds |-> <<>>]
    /\ received = [c \in ConnIds |-> <<>>]
    /\ hub_published = <<>>
    /\ reg_at = [c \in ConnIds |-> 0]
    /\ lagged = [c \in ConnIds |-> FALSE]
    /\ skipped = [c \in ConnIds |-> 0]
    /\ handshake_late = [c \in ConnIds |-> FALSE]
    /\ message_count = 0
    /\ command_handler = <<>>
    /\ invocations = <<>>
    /\ last_text = [op |-> "new"]
    /\ text_count = 0
    /\ parse_errors = [c \in ConnIds |-> 0]

\* Drone::new(id, callsign)
DroneNew(id) ==
    [id |-> id, position |-> DefaultPosition, telemetry |-> DefaultTelemetry]

\* The drone ids AppState::new puts in its cache: REAPER-01 .. REAPER-12
AppDroneIds ==
    {"REAPER-01", "REAPER-02", "REAPER-03", "REAPER-04", "REAPER-05", "REAPER-06",
     "REAPER-07", "REAPER-08", "REAPER-09", "REAPER-10", "REAPER-11", "REAPER-12"}

\* create_default_mission: twelve waypoints, all twelve drones assigned
create_default_mission ==
    NewMission("Operation Desert Watch",
               <<Waypoint("WP01", "Base Alpha"), Waypoint("WP02", "Checkpoint Bravo"),
                 Waypoint("WP03", "Outpost Charlie"), Waypoint("WP04", "Firebase Delta"),
                 Waypoint("WP05", "Sector Echo"), Waypoint("WP06", "Point Foxtrot"),
                 Waypoint("WP07", "Zone Golf"), Waypoint("WP08", "Camp Hotel"),
                 Waypoint("WP09", "Station India"), Waypoint("WP10", "Forward Juliet"),
                 Waypoint("WP11", "Base Kilo"), Waypoint("WP12", "Terminal Lima")>>,
               AppDroneIds)

\* AppState::new: the drone cache and the active-mission slot of the server.
\* No handler adds or removes a drone or empties the slot.
AppStateNew ==
    [drones |-> [id \in AppDroneIds |-> DroneNew(id)],
     active_mission |-> <<create_default_mission>>]

\* The steps of one connection
ConnectionStep(c) ==
    \/ HubAccept(c)
    \/ HubSendInitialState(c)
    \/ HubForward(c)
    \/ HubLoopExit(c)
    \/ IncomingClose(c)

\* The Subscribe and Unsubscribe frames of one connection
SubscriptionStep(c) ==
    \/ IncomingSubscribe(c)
    \/ IncomingUnsubscribe(c)

NextHub ==
    \/ \E c \in ConnIds : ConnectionStep(c) \/ SubscriptionStep(c)
    \/ HubBroadcast

(***************************************************************************)
(* Subscriber hub: the text frames of a client (handle_client_message).    *)
(*                                                                         *)
(* A text frame is the JSON value it holds, or NotJson. ClientMessage is   *)
(* adjacently tagged: {"type": <variant>, "payload": <content>}.           *)
(***************************************************************************)
\* most text frames the incoming tasks handle in one behaviour
MaxTexts == 2
\* most events broadcast in one behaviour of SpecMessages
MsgMaxBroadcasts == 1

JNull == [t |-> "null"]

JString(str) == [t |-> "string", s |-> str]

JNumber(n) == [t |-> "number", n |-> n]

\* A JSON array of strings, as the set of its items
JArray(items) == [t |-> "array", items |-> items]

JObject(fields) == [t |-> "object", fields |-> fields]

\* A text that is not JSON
NotJson == [t |-> "invalid"]

HasField(value, name) == value.t = "object" /\ name \in DOMAIN value.fields

\* {"type": tag, "payload": payload}
Tagged(tag, payload) == JObject([type |-> JString(tag), payload |-> payload])

\* {"drone_id": id, "command": {"type": command_type}}
CommandJson(id, command_type) ==
    JObject([drone_id |-> JString(id),
             command |-> JObject([type |-> JString(command_type)])])

\* The text frames a client sends
ClientTexts ==
    { NotJson,
      Tagged("Bogus", JNull),
      Tagged("Subscribe", JObject([drone_ids |-> JNull])),
      Tagged("Subscribe", JObject([drone_ids |-> JArray({"REAPER-01"})])),
      Tagged("Subscribe", JObject([drone_ids |-> JArray({"REAPER-01", "REAPER-02"})])),
      Tagged("Subscribe", JObject([drone_ids |-> JString("REAPER-01")])),
      Tagged("Unsubscribe", JObject([drone_ids |-> JNull])),
      Tagged("Unsubscribe", JObject([drone_ids |-> JArray({"REAPER-01"})])),
      Tagged("DroneCommand", CommandJson("REAPER-01", "Start")),
      Tagged("DroneCommand", JObject([drone_id |-> JString("REAPER-01")])),
      JObject([type |-> JString("RequestState")]) }

\* The result of serde_json::from_str
ParseErr == [ok |-> FALSE]

ParseOk(msg) == [ok |-> TRUE, msg |-> msg]

\* Deserialize of Option<Vec<DroneId>>, the field drone_ids of a payload: a
\* missing field and null are None, an array of strings is Some
de_drone_ids(payload) ==
    IF ~HasField(payload, "drone_ids") THEN ParseOk(<<>>)
    ELSE LET v == payload.fields.drone_ids
         IN IF v.t = "null" THEN ParseOk(<<>>)
            ELSE IF v.t = "array" THEN ParseOk(<<v.items>>)
            ELSE ParseErr

\* The variants of DroneCommandType that carry no params
UnitCommandTypes == {"Start", "Pause", "Resume", "ReturnToBase", "EmergencyStop"}

\* Deserialize of DroneCommand { drone_id, command }, the command one of the
\* variants without params
de_drone_command(payload) ==
    IF ~HasField(payload, "drone_id") \/ ~HasField(payload, "command") THEN ParseErr
    ELSE LET id == payload.fields.drone_id
             command == payload.fields.command
         IN IF id.t # "string" \/ ~HasField(command, "type") THEN ParseErr
            ELSE IF command.fields.type.t # "string" THEN ParseErr
            ELSE IF command.fields.type.s \notin UnitCommandTypes THEN ParseErr
            ELSE ParseOk([drone_id |-> id.s,
                          command |-> [type |-> command.fields.type.s]])

\* serde_json::from_str::<ClientMessage>(text)
from_str(text) ==
    IF ~HasField(text, "type") THEN ParseErr
    ELSE IF text.fields.type.t # "string" THEN ParseErr
    ELSE LET tag == text.fields.type.s
             payload == IF HasField(text, "payload") THEN text.fields.payload ELSE JNull
         IN IF tag = "RequestState" THEN ParseOk([variant |-> "RequestState"])
            ELSE IF payload.t # "object" THEN ParseErr
            ELSE IF tag \in {"Subscribe", "Unsubscribe"}
            THEN LET ids == de_drone_ids(payload)
                 IN IF ids.ok THEN ParseOk([variant |-> tag, drone_ids |-> ids.msg])
                    ELSE ParseErr
            ELSE IF tag = "DroneCommand"
            THEN LET cmd == de_drone_command(payload)
                 IN IF cmd.ok THEN ParseOk([variant |-> tag, command |-> cmd.msg])
                    ELSE ParseErr
            ELSE IF tag = "Pong"
            THEN IF HasField(payload, "timestamp") /\ payload.fields.timestamp.t = "number"
                 THEN ParseOk([variant |-> tag, timestamp |-> payload.fields.timestamp.n])
                 ELSE ParseErr
            ELSE ParseErr

\* The closures passed to set_command_handler
Handlers == {"h1", "h2"}

\* A set_command_handler that keeps a handler registered earlier
set_command_handler_once(slot, handler) == IF slot = <<>> THEN <<handler>> ELSE slot

\* WebSocketHub::set_command_handler: the slot after the call
set_command_handler(slot, handler) == <<handler>>

\* WebSocketHub::handle_command: the handler calls made so far, after the call
handle_command(slot, calls_made, command) ==
    IF slot # <<>>
    THEN Append(calls_made, [handler |-> slot[1], command |-> command])
    ELSE calls_made

\* A handle_client_message that lets a frame that does not parse empty the
\* sender's filter
handle_client_message_clearing(map, slot, calls_made, client_id, text) ==
    LET r == from_str(text)
    IN IF ~r.ok
       THEN [clients |-> hub_unsubscribe(map, client_id, <<>>),
             invocations |-> calls_made, result |-> "Err"]
       ELSE IF r.msg.variant = "Subscribe"
       THEN [clients |-> hub_subscribe(map, client_id, r.msg.drone_ids),
             invocations |-> calls_made, result |-> "Ok"]
       ELSE IF r.msg.variant = "Unsubscribe"
       THEN [clients |-> hub_unsubscribe(map, client_id, r.msg.drone_ids),
             invocations |-> calls_made, result |-> "Ok"]
       ELSE IF r.msg.variant = "DroneCommand"
       THEN [clients |-> map,
             invocations |-> handle_command(slot, calls_made, r.msg.command),
             result |-> "Ok"]
       ELSE [clients |-> map, invocations |-> calls_made, result |-> "Ok"]

\* handle_client_message: the client map and the handler calls after it, and
\* whether it returned Ok or Err
handle_client_message(map, slot, calls_made, client_id, text) ==
    LET r == from_str(text)
    IN IF ~r.ok
       THEN [clients |-> map, invocations |-> calls_made, result |-> "Err"]
       ELSE IF r.msg.variant = "Subscribe"
       THEN [clients |-> hub_subscribe(map, client_id, r.msg.drone_ids),
             invocations |-> calls_made, result |-> "Ok"]
       ELSE IF r.msg.variant = "Unsubscribe"
       THEN [clients |-> hub_unsubscribe(map, client_id, r.msg.drone_ids),
             invocations |-> calls_made, result |-> "Ok"]
       ELSE IF r.msg.variant = "DroneCommand"
       THEN [clients |-> map,
             invocations |-> handle_command(slot, calls_made, r.msg.command),
             result |-> "Ok"]
       ELSE [clients |-> map, invocations |-> calls_made, result |-> "Ok"]

\* The incoming task: a text frame arrives and is handled; an Err of
\* handle_client_message is logged and the task waits for the next frame
IncomingText(c) ==
    \E text \in ClientTexts :
        /\ incoming[c] = "running"
        /\ text_count < MaxTexts
        /\ LET r == handle_client_message(clients, command_handler, invocations, c, text)
           IN /\ clients' = r.clients
              /\ invocations' = r.invocations
              /\ last_text' = [op |-> "text", conn |-> c, text |-> text,
                               result |-> r.result]
              /\ parse_errors' = [parse_errors EXCEPT ![c] =
                                     IF r.result = "Err" THEN @ + 1 ELSE @]
        /\ text_count' = text_count + 1
        /\ UNCHANGED <<hub_chan, hub_rx, conn, frames, received, hub_published,
                       reg_at, lagged, skipped, handshake_late, message_count,
                       incoming, command_handler>>
        /\ UNCHANGED <<engine_vars, cv_vars, api_vars, exec_vars,
                       bus_vars, task_vars, convoy_vars>>

\* WebSocketHub::set_command_handler, called by the owner of the hub
SetCommandHandler ==
    \E handler \in Handlers :
        /\ command_handler' = set_command_handler(command_handler, handler)
        /\ last_text' = [op |-> "set_command_handler", handler |-> handler]
        /\ UNCHANGED <<clients, hub_chan, hub_rx, conn, frames, received,
                       hub_published, reg_at, lagged, skipped, handshake_late,
                       message_count, incoming, invocations, text_count,
                       parse_errors>>
        /\ UNCHANGED <<engine_vars, cv_vars, api_vars, exec_vars,
                       bus_vars, task_vars, convoy_vars>>

\* The hub with a connection that sends text frames, and a second client
\* that registers and sends none
NextMessages ==
    \/ ConnectionStep("c1")
    \/ IncomingText("c1")
    \/ HubAccept("c2")
    \/ SetCommandHandler
    \/ Len(hub_published) < MsgMaxBroadcasts /\ HubBroadcast

(***************************************************************************)
(* HTTP API: the active-mission slot (drone-api/src/state.rs, handlers.rs).*)
(*                                                                         *)
(* The slot is a parking_lot RwLock<Option<Mission>>. A handler runs on a  *)
(* worker thread; write() and read() block the thread until the lock can   *)
(* be taken, and the lock is not reentrant.                                *)
(***************************************************************************)
\* most handler invocations in one behaviour
ApiMaxCalls == 4

\* The requests the server handles at the same time
Requests == {"q1", "q2"}

ApiHandlers == {"start_mission", "get_mission", "pause_mission"}

\* Mission::start
mission_start(m) == [m EXCEPT !.status = "ACTIVE"]

\* A request arrives and its handler is invoked: it is now at its first
\* call of write() or read()
ApiCall(q) ==
    \E handler \in ApiHandlers :
        /\ api_pc[q].at = "idle"
        /\ api_calls < ApiMaxCalls
        /\ api_calls' = api_calls + 1
        /\ api_pc' = [api_pc EXCEPT ![q] = [at |-> handler]]
        /\ api_ret' = [api_ret EXCEPT ![q] = [status |-> "pending", handler |-> handler]]
        /\ UNCHANGED <<active_mission, mission_lock>>
        /\ UNCHANGED <<engine_vars, hub_vars, cv_vars, exec_vars,
                       bus_vars, task_vars, convoy_vars>>

\* start_mission: a call of active_mission.write() returns the guard, which
\* it does when no guard is held. The first call is the scrutinee of the
\* if let: take() empties the slot, and the guard, a temporary of the
\* scrutinee, lives on through the body. With Some(mission) the body calls
\* mission.start() and then write() again; that second call returning, it
\* stores the mission, both guards are dropped and the handler returns.
StartMissionWrite(q) ==
    /\ api_pc[q].at \in {"start_mission", "start_mission_store"}
    /\ mission_lock = None
    /\ IF api_pc[q].at = "start_mission"
       THEN IF active_mission # <<>>
            THEN /\ active_mission' = <<>>
                 /\ mission_lock' = q
                 /\ api_pc' = [api_pc EXCEPT ![q] =
                        [at |-> "start_mission_store",
                         mission |-> mission_start(active_mission[1])]]
                 /\ UNCHANGED api_ret
            ELSE /\ api_pc' = [api_pc EXCEPT ![q] = [at |-> "idle"]]
                 /\ api_ret' = [api_ret EXCEPT ![q] =
                        [status |-> "error", handler |-> "start_mission"]]
                 /\ UNCHANGED <<active_mission, mission_lock>>
       ELSE /\ active_mission' = <<api_pc[q].mission>>
            /\ api_pc' = [api_pc EXCEPT ![q] = [at |-> "idle"]]
            /\ api_ret' = [api_ret EXCEPT ![q] =
                   [status |-> "started", handler |-> "start_mission"]]
            /\ UNCHANGED mission_lock
    /\ UNCHANGED api_calls
    /\ UNCHANGED <<engine_vars, hub_vars, cv_vars, exec_vars,
                   bus_vars, task_vars, convoy_vars>>

\* AppState::get_mission as the get_mission handler calls it: read() returns
\* when no write guard is held, and the slot is cloned
GetMissionRead(q) ==
    /\ api_pc[q].at = "get_mission"
    /\ mission_lock = None
    /\ api_pc' = [api_pc EXCEPT ![q] = [at |-> "idle"]]
    /\ api_ret' = [api_ret EXCEPT ![q] =
           [status |-> "ok", handler |-> "get_mission", mission |-> active_mission]]
    /\ UNCHANGED <<active_mission, mission_lock, api_calls>>
    /\ UNCHANGED <<engine_vars, hub_vars, cv_vars, exec_vars,
                   bus_vars, task_vars, convoy_vars>>

\* pause_mission: read() returns when no write guard is held; the mission's
\* name is logged and the slot is left as it is
PauseMissionRead(q) ==
    /\ api_pc[q].at = "pause_mission"
    /\ mission_lock = None
    /\ api_pc' = [api_pc EXCEPT ![q] = [at |-> "idle"]]
    /\ api_ret' = [api_ret EXCEPT ![q] = [status |-> "paused", handler |-> "pause_mission"]]
    /\ UNCHANGED <<active_mission, mission_lock, api_calls>>
    /\ UNCHANGED <<engine_vars, hub_vars, cv_vars, exec_vars,
                   bus_vars, task_vars, convoy_vars>>

\* AppState::new: the slot holds the default mission and no request is in
\* progress
InitApi ==
    /\ active_mission = AppStateNew.active_mission
    /\ mission_lock = None
    /\ api_pc = [q \in Requests |-> [at |-> "idle"]]
    /\ api_ret = [q \in Requests |-> [status |-> "none"]]
    /\ api_calls = 0

NextApi ==
    \E q \in Requests :
        \/ ApiCall(q)
        \/ StartMissionWrite(q)
        \/ GetMissionRead(q)
        \/ PauseMissionRead(q)

(***************************************************************************)
(* Mission executor (drone-tracker/src/mission.rs, MissionExecutor).       *)
(***************************************************************************)
\* most executor calls in one behaviour
ExecMaxCalls == 7

\* MissionExecutor::new sets threshold_km to 0.5: in meters
threshold_meters == 500

ExecPositions == {"nearA", "B", "beyondA"}

\* Speeds in km/h
ExecSpeeds == {0, 400}

\* WaypointProgress::new; progress_to_next is kept in thousandths,
\* estimated_arrival as the seconds from now
WaypointProgressNew ==
    [current_index |-> 0, progress_to_next |-> 0, waypoints_completed |-> <<>>,
     estimated_arrival |-> <<>>]

\* MissionExecutor::set_mission: the progress map after the call. An entry is
\* inserted for every assigned drone; no entry is removed.
exec_set_mission(progress_map, m) ==
    [d \in DOMAIN progress_map \cup m.assigned_drones |->
        IF d \in m.assigned_drones THEN WaypointProgressNew ELSE progress_map[d]]

\* The WaypointReached that update_drone_position returns
WaypointReached(drone_id, wp, index) ==
    [drone_id |-> drone_id, waypoint_id |-> wp.id, position |-> wp.position,
     index |-> index]

\* progress_to_next = 1.0 - (distance / total_distance).min(1.0), in
\* thousandths; a division by zero gives infinity, which min turns into 1.0
progress_to_next(distance, total_distance) ==
    IF total_distance = 0 THEN 0
    ELSE 1000 - Min((distance * 1000) \div total_distance, 1000)

\* An update_drone_position that ignores the mission's status
exec_update_any_status(slot, progress_map, drone_id, position, speed) ==
    IF slot = <<>>
    THEN [progress |-> progress_map, result |-> <<>>]
    ELSE IF drone_id \notin DOMAIN progress_map
    THEN [progress |-> progress_map, result |-> <<>>]
    ELSE IF progress_map[drone_id].current_index >= Len(slot[1].waypoints)
    THEN [progress |-> progress_map, result |-> <<>>]
    ELSE LET m == slot[1]
             progress == progress_map[drone_id]
             current_wp == m.waypoints[progress.current_index + 1]
             distance == distance_meters(position, current_wp.position)
         IN IF distance < threshold_meters
            THEN [progress |-> [progress_map EXCEPT ![drone_id] =
                      [progress EXCEPT
                          !.waypoints_completed = Append(@, current_wp.id),
                          !.current_index = @ + 1,
                          !.progress_to_next = 0]],
                  result |-> <<WaypointReached(drone_id, current_wp,
                                               progress.current_index)>>]
            ELSE LET total_distance ==
                         IF progress.current_index > 0
                         THEN distance_meters(m.waypoints[progress.current_index].position,
                                              current_wp.position)
                         ELSE distance + 1000
                 IN [progress |-> [progress_map EXCEPT ![drone_id] =
                         [progress EXCEPT
                             !.progress_to_next =
                                 progress_to_next(distance, total_distance),
                             !.estimated_arrival =
                                 IF speed > 0
                                 THEN <<(distance * 36) \div (speed * 10)>>
                                 ELSE @]],
                     result |-> <<>>]

\* MissionExecutor::update_drone_position: the progress map after the call
\* and the Option<WaypointReached> it returns
exec_update(slot, progress_map, drone_id, position, speed) ==
    IF slot = <<>>
    THEN [progress |-> progress_map, result |-> <<>>]
    ELSE IF slot[1].status # "ACTIVE"
    THEN [progress |-> progress_map, result |-> <<>>]
    ELSE IF drone_id \notin DOMAIN progress_map
    THEN [progress |-> progress_map, result |-> <<>>]
    ELSE IF progress_map[drone_id].current_index >= Len(slot[1].waypoints)
    THEN [progress |-> progress_map, result |-> <<>>]
    ELSE LET m == slot[1]
             progress == progress_map[drone_id]
             current_wp == m.waypoints[progress.current_index + 1]
             distance == distance_meters(position, current_wp.position)
         IN IF distance < threshold_meters
            THEN [progress |-> [progress_map EXCEPT ![drone_id] =
                      [progress EXCEPT
                          !.waypoints_completed = Append(@, current_wp.id),
                          !.current_index = @ + 1,
                          !.progress_to_next = 0]],
                  result |-> <<WaypointReached(drone_id, current_wp,
                                               progress.current_index)>>]
            ELSE LET total_distance ==
                         IF progress.current_index > 0
                         THEN distance_meters(m.waypoints[progress.current_index].position,
                                              current_wp.position)
                         ELSE distance + 1000
                 IN [progress |-> [progress_map EXCEPT ![drone_id] =
                         [progress EXCEPT
                             !.progress_to_next =
                                 progress_to_next(distance, total_distance),
                             !.estimated_arrival =
                                 IF speed > 0
                                 THEN <<(distance * 36) \div (speed * 10)>>
                                 ELSE @]],
                     result |-> <<>>]

\* MissionExecutor::is_complete
is_complete ==
    IF exec_mission = <<>> THEN FALSE
    ELSE \A d \in DOMAIN drone_progress :
            drone_progress[d].current_index >= Len(exec_mission[1].waypoints)

\* The sum of f[x] over the domain of f
RECURSIVE SumOver(_, _)
SumOver(f, D) ==
    IF D = {} THEN 0
    ELSE LET x == CHOOSE y \in D : TRUE
         IN f[x] + SumOver(f, D \ {x})

\* MissionExecutor::overall_progress, as the fraction num / den (0.0 is 0 / 1)
overall_progress ==
    IF exec_mission = <<>> THEN [num |-> 0, den |-> 1]
    ELSE IF exec_mission[1].waypoints = <<>> THEN [num |-> 0, den |-> 1]
    ELSE LET total_waypoints ==
                 Len(exec_mission[1].waypoints) * Cardinality(DOMAIN drone_progress)
             completed ==
                 SumOver([d \in DOMAIN drone_progress |->
                              Len(drone_progress[d].waypoints_completed)],
                         DOMAIN drone_progress)
         IN IF total_waypoints = 0 THEN [num |-> 0, den |-> 1]
            ELSE [num |-> completed, den |-> total_waypoints]

\* MissionExecutor::set_mission
ExecSetMission ==
    \E m \in Missions :
        /\ exec_calls < ExecMaxCalls
        /\ exec_calls' = exec_calls + 1
        /\ drone_progress' = exec_set_mission(drone_progress, m)
        /\ exec_mission' = <<m>>
        /\ exec_last' = [op |-> "set_mission", mission_id |-> m.id]
        /\ UNCHANGED <<engine_vars, hub_vars, cv_vars, api_vars,
                       bus_vars, task_vars, convoy_vars>>

\* start, pause, resume, abort and complete: with a mission set, its status
\* becomes the given one; with none, nothing changes
ExecSetStatus(op, status) ==
    /\ exec_calls < ExecMaxCalls
    /\ exec_calls' = exec_calls + 1
    /\ exec_mission' = IF exec_mission = <<>> THEN <<>>
                       ELSE <<[exec_mission[1] EXCEPT !.status = status]>>
    /\ exec_last' = [op |-> op]
    /\ UNCHANGED drone_progress
    /\ UNCHANGED <<engine_vars, hub_vars, cv_vars, api_vars,
                   bus_vars, task_vars, convoy_vars>>

\* MissionExecutor::start
ExecStart == ExecSetStatus("start", "ACTIVE")

\* MissionExecutor::pause
ExecPause == ExecSetStatus("pause", "PAUSED")

\* MissionExecutor::resume
ExecResume == ExecSetStatus("resume", "ACTIVE")

\* MissionExecutor::abort
ExecAbort == ExecSetStatus("abort", "ABORTED")

\* MissionExecutor::complete
ExecComplete == ExecSetStatus("complete", "COMPLETED")

\* MissionExecutor::update_drone_position
ExecUpdateDronePosition ==
    \E drone_id \in DroneIds, position \in ExecPositions, speed \in ExecSpeeds :
        /\ exec_calls < ExecMaxCalls
        /\ exec_calls' = exec_calls + 1
        /\ LET r == exec_update(exec_mission, drone_progress, drone_id, position, speed)
           IN /\ drone_progress' = r.progress
              /\ exec_last' = [op |-> "update_drone_position", drone_id |-> drone_id,
                               position |-> position, speed |-> speed,
                               result |-> r.result]
        /\ UNCHANGED exec_mission
        /\ UNCHANGED <<engine_vars, hub_vars, cv_vars, api_vars,
                       bus_vars, task_vars, convoy_vars>>

\* MissionExecutor::new
InitExec ==
    /\ exec_mission = <<>>
    /\ drone_progress = [d \in {} |-> 0]
    /\ exec_last = [op |-> "new"]
    /\ exec_calls = 0

NextExec ==
    \/ ExecSetMission
    \/ ExecStart
    \/ ExecPause
    \/ ExecResume
    \/ ExecAbort
    \/ ExecComplete
    \/ ExecUpdateDronePosition

(***************************************************************************)
(* DroneTracker::update_drone_position called by concurrent tasks          *)
(* (drone-tracker/src/lib.rs:219-261). The RefMut that drones.get_mut      *)
(* returns is held to the end of the if-let block; a task that asks for    *)
(* the entry of the same drone waits for it.                               *)
(***************************************************************************)
\* most engine operations called in one behaviour of SpecTasks
TaskMaxCalls == 4

Tasks == {"t1", "t2"}

TaskIdle == [at |-> "idle"]

\* A get_mut whose RefMut excludes no other task
entry_guard_not_held(held, drone_id) == held

\* drones.get_mut(drone_id) returning Some: the entries on which a RefMut is
\* held after the call
entry_guard(held, drone_id) == held \cup {drone_id}

\* update_drone_position up to get_mut: an unknown drone returns Ok(()) at
\* once; a known one is locked, waiting while another task holds its entry
TaskGetMut(t) ==
    \E drone_id \in DroneIds, position \in UpdatePositions :
        /\ upd_pc[t] = TaskIdle
        /\ calls < TaskMaxCalls
        /\ drone_id \notin guards
        /\ calls' = calls + 1
        /\ IF get_mut(drones, drone_id) # <<>>
           THEN /\ guards' = entry_guard(guards, drone_id)
                /\ upd_pc' = [upd_pc EXCEPT ![t] =
                       [at |-> "update", drone_id |-> drone_id,
                        position |-> position, call |-> calls + 1]]
           ELSE UNCHANGED <<guards, upd_pc>>
        /\ UNCHANGED <<drones, mission, reached, alert_queue, last_op, db, db_pending,
                       last_sent>>
        /\ UNCHANGED <<hub_vars, cv_vars, api_vars, exec_vars, bus_vars, convoy_vars>>

\* update_position, check_waypoint_progress and check_alerts on the entry
TaskUpdate(t) ==
    /\ upd_pc[t].at = "update"
    /\ LET pc == upd_pc[t]
           moved == update_position(drones[pc.drone_id], pc.position, DefaultTelemetry)
           r == IF mission # <<>>
                THEN check_waypoint_progress(moved, mission[1], pc.call)
                ELSE [tracked |-> moved, events |-> <<>>]
       IN /\ drones' = [drones EXCEPT ![pc.drone_id] = r.tracked]
          /\ alert_queue' = try_send_all(alert_queue, check_alerts(r.tracked))
          /\ reached' = [reached EXCEPT ![pc.drone_id] =
                 @ \cup {r.events[i].waypoint_id : i \in DOMAIN r.events}]
    /\ upd_pc' = [upd_pc EXCEPT ![t] = [@ EXCEPT !.at = "send"]]
    /\ UNCHANGED <<mission, calls, last_op, persist_vars, last_sent>>
    /\ UNCHANGED <<hub_vars, cv_vars, api_vars, exec_vars, bus_vars, convoy_vars>>

\* let _ = self.event_tx.send(Event::drone_position_updated(..))
TaskSend(t) ==
    /\ upd_pc[t].at = "send"
    /\ last_sent' = [last_sent EXCEPT ![upd_pc[t].drone_id] = upd_pc[t].position]
    /\ upd_pc' = [upd_pc EXCEPT ![t] = [@ EXCEPT !.at = "persist"]]
    /\ UNCHANGED <<drones, mission, reached, calls, alert_queue, last_op, persist_vars>>
    /\ UNCHANGED <<hub_vars, cv_vars, api_vars, exec_vars, bus_vars, convoy_vars>>

\* The insert, if a database is set, has returned; the if-let block ends and
\* the RefMut is dropped
TaskReturn(t) ==
    /\ upd_pc[t].at = "persist"
    /\ guards' = guards \ {upd_pc[t].drone_id}
    /\ upd_pc' = [upd_pc EXCEPT ![t] = TaskIdle]
    /\ UNCHANGED <<drones, mission, reached, calls, alert_queue, last_op, db, db_pending,
                   last_sent>>
    /\ UNCHANGED <<hub_vars, cv_vars, api_vars, exec_vars, bus_vars, convoy_vars>>

InitTasks ==
    /\ upd_pc = [t \in Tasks |-> TaskIdle]
    /\ last_sent = [d \in DroneIds |-> None]

\* Drones registered once, a mission set, and updates by concurrent tasks
NextTasks ==
    \/ calls < TaskMaxCalls /\ RegisterDrone /\ DOMAIN drones' # DOMAIN drones
    \/ calls < TaskMaxCalls /\ SetMission
    \/ \E t \in Tasks : TaskGetMut(t)
    \/ \E t \in Tasks : TaskUpdate(t)
    \/ \E t \in Tasks : TaskSend(t)
    \/ \E t \in Tasks : TaskReturn(t)

(***************************************************************************)
(* Convoy manager (drone-tracker/src/convoy.rs). set_formation and         *)
(* set_order take &self: each writes its field under that field's lock,    *)
(* releases it, and calls recalculate_offsets, which reads formation, then *)
(* order, each under its own lock, and then rebuilds offsets under the     *)
(* offsets lock. Offsets are kept in meters; spacing is 50.                *)
(***************************************************************************)
\* most set_formation and set_order calls in one behaviour
ConvoyMaxCalls == 3
\* ConvoyManager::new sets spacing to 50.0
spacing == 50

Callers == {"k1", "k2"}

Formations == {"Line", "Vee", "Diamond", "Echelon", "Column", "Spread"}

\* The orders passed to set_order
Orders == {<<"REAPER-01", "REAPER-02">>, <<"REAPER-02", "REAPER-01">>, <<"REAPER-02">>}

FormationOffset(lateral, longitudinal) ==
    [lateral |-> lateral, longitudinal |-> longitudinal, vertical |-> 0]

\* The offset recalculate_offsets gives the drone at index i > 0 of an order
\* of n drones (Vee: 0.7 * spacing = 35; Diamond: sin and cos of
\* (i - 1) * pi / 2, to the meter)
formation_offset(f, i, n) ==
    CASE f = "Line"    -> FormationOffset(0, spacing * i)
      [] f = "Vee"     -> LET side == IF i % 2 = 1 THEN 1 ELSE -1
                              row == (i + 1) \div 2
                          IN FormationOffset(side * ((spacing * row * 7) \div 10),
                                             spacing * row)
      [] f = "Diamond" -> (CASE (i - 1) % 4 = 0 -> FormationOffset(0, spacing)
                             [] (i - 1) % 4 = 1 -> FormationOffset(spacing, 0)
                             [] (i - 1) % 4 = 2 -> FormationOffset(0, -spacing)
                             [] (i - 1) % 4 = 3 -> FormationOffset(-spacing, 0))
      [] f = "Echelon" -> FormationOffset((spacing * i) \div 2, spacing * i)
      [] f = "Column"  -> FormationOffset(0, spacing * i)
      [] f = "Spread"  -> FormationOffset((spacing * (2 * i - n)) \div 2, 0)

\* The table recalculate_offsets builds from a formation and an order: the
\* entries are inserted in the order's order, a later one replacing an
\* earlier one of the same drone; index 0 gets the zero offset
RECURSIVE insert_offsets(_, _, _, _)
insert_offsets(table, f, ord, idx) ==
    IF idx > Len(ord) THEN table
    ELSE LET offset == IF idx = 1 THEN FormationOffset(0, 0)
                       ELSE formation_offset(f, idx - 1, Len(ord))
         IN insert_offsets([d \in DOMAIN table \cup {ord[idx]} |->
                               IF d = ord[idx] THEN offset ELSE table[d]],
                           f, ord, idx + 1)

offsets_of(f, ord) == insert_offsets([d \in {} |-> 0], f, ord, 1)

ConvoyIdle == [at |-> "idle"]

\* set_formation: *self.formation.write() = formation
ConvoySetFormation(k) ==
    \E f \in Formations :
        /\ convoy_pc[k] = ConvoyIdle
        /\ convoy_calls < ConvoyMaxCalls
        /\ convoy_calls' = convoy_calls + 1
        /\ formation' = f
        /\ convoy_pc' = [convoy_pc EXCEPT ![k] = [at |-> "read_formation"]]
        /\ UNCHANGED <<order, offsets>>
        /\ UNCHANGED <<engine_vars, hub_vars, cv_vars, api_vars, exec_vars, bus_vars,
                       task_vars>>

\* set_order: *self.order.write() = order
ConvoySetOrder(k) ==
    \E o \in Orders :
        /\ convoy_pc[k] = ConvoyIdle
        /\ convoy_calls < ConvoyMaxCalls
        /\ convoy_calls' = convoy_calls + 1
        /\ order' = o
        /\ convoy_pc' = [convoy_pc EXCEPT ![k] = [at |-> "read_formation"]]
        /\ UNCHANGED <<formation, offsets>>
        /\ UNCHANGED <<engine_vars, hub_vars, cv_vars, api_vars, exec_vars, bus_vars,
                       task_vars>>

\* recalculate_offsets: let formation = *self.formation.read()
ConvoyReadFormation(k) ==
    /\ convoy_pc[k].at = "read_formation"
    /\ convoy_pc' = [convoy_pc EXCEPT ![k] =
                        [at |-> "read_order", formation |-> formation]]
    /\ UNCHANGED <<formation, order, offsets, convoy_calls>>
    /\ UNCHANGED <<engine_vars, hub_vars, cv_vars, api_vars, exec_vars, bus_vars,
                   task_vars>>

\* recalculate_offsets: let order = self.order.read().clone()
ConvoyReadOrder(k) ==
    /\ convoy_pc[k].at = "read_order"
    /\ convoy_pc' = [convoy_pc EXCEPT ![k] =
                        [at |-> "write_offsets", formation |-> @.formation,
                         order |-> order]]
    /\ UNCHANGED <<formation, order, offsets, convoy_calls>>
    /\ UNCHANGED <<engine_vars, hub_vars, cv_vars, api_vars, exec_vars, bus_vars,
                   task_vars>>

\* recalculate_offsets: the table is cleared and rebuilt under offsets.write(),
\* and the call returns
ConvoyWriteOffsets(k) ==
    /\ convoy_pc[k].at = "write_offsets"
    /\ offsets' = offsets_of(convoy_pc[k].formation, convoy_pc[k].order)
    /\ convoy_pc' = [convoy_pc EXCEPT ![k] = ConvoyIdle]
    /\ UNCHANGED <<formation, order, convoy_calls>>
    /\ UNCHANGED <<engine_vars, hub_vars, cv_vars, api_vars, exec_vars, bus_vars,
                   task_vars>>

\* ConvoyManager::new
InitConvoy ==
    /\ formation = "Line"
    /\ order = <<>>
    /\ offsets = [d \in {} |-> 0]
    /\ convoy_pc = [k \in Callers |-> ConvoyIdle]
    /\ convoy_calls = 0

NextConvoy ==
    \/ \E k \in Callers : ConvoySetFormation(k)
    \/ \E k \in Callers : ConvoySetOrder(k)
    \/ \E k \in Callers : ConvoyReadFormation(k)
    \/ \E k \in Callers : ConvoyReadOrder(k)
    \/ \E k \in Callers : ConvoyWriteOffsets(k)

(***************************************************************************)
(* Event bus (drone-tracker/src/events.rs). publish takes the history       *)
(* lock, releases it, takes the counter lock, releases it, and then sends  *)
(* on the broadcast channel: three steps that calls made on clones of the  *)
(* bus from several threads may interleave.                                *)
(***************************************************************************)
\* most publish calls in one behaviour
BusMaxPublishes == 3
\* the capacity passed to EventBus::new
BusCapacity == 2
\* EventBus::new sets max_history to 1000
max_history == 1000

Publishers == {"p1", "p2"}
BusSubscribers == {"s1", "s2"}

\* The event of the n-th publish call (Event::new draws a fresh id)
BusEvent(n) == Uuid("bus", n, 1)

\* The history step of a publish that never drops an event
history_push_unbounded(history, event) == Append(history, event)

\* The history step of publish: push, then remove(0) when the length is
\* past max_history
history_push(history, event) ==
    LET pushed == Append(history, event)
    IN IF Len(pushed) > max_history THEN Tail(pushed) ELSE pushed

\* EventBus::get_recent: history[len.saturating_sub(count)..]
get_recent(count) ==
    LET start == Max(Len(bus_history) - count, 0)
    IN SubSeq(bus_history, start + 1, Len(bus_history))

\* EventBus::get_event_count
get_event_count == bus_event_count

\* EventBus::subscriber_count
subscriber_count == Cardinality({s \in BusSubscribers : bus_rx[s] # <<>>})

BusIdle == [at |-> "idle"]

\* publish, first block: the event enters the history
BusPublishHistory(p) ==
    /\ bus_pc[p] = BusIdle
    /\ bus_calls < BusMaxPublishes
    /\ bus_calls' = bus_calls + 1
    /\ LET event == BusEvent(Len(bus_published) + 1)
       IN /\ bus_history' = history_push(bus_history, event)
          /\ bus_published' = Append(bus_published, event)
          /\ bus_pc' = [bus_pc EXCEPT ![p] = [at |-> "count", event |-> event]]
    /\ UNCHANGED <<bus_event_count, bus_chan, bus_rx>>
    /\ UNCHANGED <<engine_vars, hub_vars, cv_vars, api_vars, exec_vars, task_vars, convoy_vars>>

\* publish, second statement: *self.event_count.write() += 1
BusPublishCount(p) ==
    /\ bus_pc[p].at = "count"
    /\ bus_event_count' = bus_event_count + 1
    /\ bus_pc' = [bus_pc EXCEPT ![p] = [@ EXCEPT !.at = "send"]]
    /\ UNCHANGED <<bus_history, bus_chan, bus_rx, bus_published, bus_calls>>
    /\ UNCHANGED <<engine_vars, hub_vars, cv_vars, api_vars, exec_vars, task_vars, convoy_vars>>

\* publish, third statement: let _ = self.sender.send(event)
BusPublishSend(p) ==
    /\ bus_pc[p].at = "send"
    /\ bus_chan' = broadcast_send(bus_chan, subscriber_count, bus_pc[p].event,
                                  BusCapacity)
    /\ bus_pc' = [bus_pc EXCEPT ![p] = BusIdle]
    /\ UNCHANGED <<bus_history, bus_event_count, bus_rx, bus_published, bus_calls>>
    /\ UNCHANGED <<engine_vars, hub_vars, cv_vars, api_vars, exec_vars, task_vars, convoy_vars>>

\* EventBus::subscribe
BusSubscribe(sub) ==
    /\ bus_rx[sub] = <<>>
    /\ bus_rx' = [bus_rx EXCEPT ![sub] =
                     <<[next |-> broadcast_subscribe(bus_chan), got |-> <<>>]>>]
    /\ UNCHANGED <<bus_history, bus_event_count, bus_chan, bus_pc, bus_published,
                   bus_calls>>
    /\ UNCHANGED <<engine_vars, hub_vars, cv_vars, api_vars, exec_vars, task_vars, convoy_vars>>

\* A subscriber's recv().await when a value or a lag is due
BusRecv(sub) ==
    /\ bus_rx[sub] # <<>>
    /\ bus_rx[sub][1].next < bus_chan.tail
    /\ LET r == broadcast_recv(bus_chan, bus_rx[sub][1].next)
       IN bus_rx' = [bus_rx EXCEPT ![sub] =
              <<[next |-> r.next,
                 got |-> IF r.kind = "Ok" THEN Append(@[1].got, r.event)
                         ELSE @[1].got]>>]
    /\ UNCHANGED <<bus_history, bus_event_count, bus_chan, bus_pc, bus_published,
                   bus_calls>>
    /\ UNCHANGED <<engine_vars, hub_vars, cv_vars, api_vars, exec_vars, task_vars, convoy_vars>>

\* The bus after n publish calls made one at a time with no subscriber
InitBusAfter(n) ==
    /\ bus_published = [i \in 1..n |-> BusEvent(i)]
    /\ bus_history = [i \in 1..Min(n, max_history) |->
                         BusEvent(n - Min(n, max_history) + i)]
    /\ bus_event_count = n
    /\ bus_chan = broadcast_channel
    /\ bus_rx = [sub \in BusSubscribers |-> <<>>]
    /\ bus_pc = [p \in Publishers |-> BusIdle]
    /\ bus_calls = 0

\* EventBus::new
InitBus == InitBusAfter(0)

\* The numbers of publish calls that behaviours of SpecBus start after
BusStarts == {0, max_history - 1, max_history}

\* publish calls made one at a time, by one publisher
NextBus ==
    \/ BusPublishHistory("p1")
    \/ BusPublishCount("p1")
    \/ BusPublishSend("p1")
    \/ \E sub \in BusSubscribers : BusSubscribe(sub)
    \/ \E sub \in BusSubscribers : BusRecv(sub)

\* publish calls made on clones of the bus by concurrent tasks
NextBusConcurrent ==
    \/ \E p \in Publishers : BusPublishHistory(p)
    \/ \E p \in Publishers : BusPublishCount(p)
    \/ \E p \in Publishers : BusPublishSend(p)
    \/ \E sub \in BusSubscribers : BusSubscribe(sub)
    \/ \E sub \in BusSubscribers : BusRecv(sub)

(***************************************************************************)
(* Specifications.                                                         *)
(***************************************************************************)
\* The state after construction of an engine, a hub and a visual tracker
\* with TrackingConfig(3, 2, 2)
Init ==
    /\ InitEngine /\ InitHub /\ InitCvWith(TrackingConfig(3, 2, 2)) /\ InitApi /\ InitExec
    /\ InitBus /\ InitTasks /\ InitConvoy

\* The same with the visual tracker's configuration drawn from TrackingConfigs
InitAnyConfig ==
    /\ InitEngine /\ InitHub /\ InitCv /\ InitApi /\ InitExec /\ InitBus /\ InitTasks
    /\ InitConvoy

\* The tracking engine alone
SpecTracker == Init /\ [][NextEngine]_vars

\* The tracking engine when no drone id is registered a second time
NextRegisterOnce ==
    \/ RegisterDrone /\ DOMAIN drones' # DOMAIN drones
    \/ SetMission
    \/ UpdateDronePosition

SpecRegisterOnce == Init /\ [][NextRegisterOnce]_vars

\* The tracking engine fed telemetry around the alert thresholds
NextAlerts ==
    \/ calls < AlertMaxCalls /\ RegisterDrone
    \/ calls < AlertMaxCalls /\ SetMission
    \/ calls < AlertMaxCalls /\ UpdateDronePositionWith(AlertTelemetries)

SpecAlerts == Init /\ [][NextAlerts]_vars

\* The tracking engine with a database client set, its calls made by
\* concurrent tasks: a call suspended at the insert leaves the others running
NextPersist ==
    \/ SetDatabase
    \/ calls < PersistMaxCalls /\ db # None /\ RegisterDrone
    \/ calls < PersistMaxCalls /\ db # None /\ SetMission
    \/ calls < PersistMaxCalls /\ db # None /\ UpdateDronePosition
    \/ TelemetryInsertReturns
    \/ calls < PersistMaxCalls /\ db # None /\ GetDrone
    \/ calls < PersistMaxCalls /\ db # None /\ GetAllDrones

SpecPersist == Init /\ [][NextPersist]_vars

\* The positions of the first n updates of a drone that alternates between
\* nearA and B
History(n) == [i \in 1..n |-> IF i % 2 = 1 THEN "nearA" ELSE "B"]

\* The numbers of updates a drone has had when a behaviour of SpecHistory
\* starts: none, one below the cap of the history, and the cap
HistoryLengths == {0, PositionHistoryCap - 1, PositionHistoryCap}

\* A TrackedDrone that update_position has been applied to n times
TrackedDroneAfter(id, n) ==
    IF n = 0 THEN TrackedDroneNew(id)
    ELSE [TrackedDroneNew(id) EXCEPT !.position = History(n)[n],
                                     !.telemetry = [battery_level |-> 40,
                                                    fuel_level |-> 40],
                                     !.position_history = History(n)]

\* An engine that tracks REAPER-01, the drone's record drawn from those of
\* HistoryLengths; no mission is set
InitHistory ==
    /\ \E n \in HistoryLengths :
          drones = [d \in {"REAPER-01"} |-> TrackedDroneAfter(d, n)]
    /\ mission = <<>>
    /\ reached = [id \in DroneIds |-> {}]
    /\ calls = 0
    /\ alert_queue = <<>>
    /\ last_op = [op |-> "new", events |-> <<>>]
    /\ db = None
    /\ guards = {}
    /\ db_pending = {}
    /\ InitHub /\ InitCvWith(TrackingConfig(3, 2, 2)) /\ InitApi /\ InitExec
    /\ InitBus /\ InitTasks /\ InitConvoy

\* update_position applied to records around the cap of the history
NextHistory ==
    calls < HistoryMaxCalls /\ UpdateDronePositionOf(UpdatePositions, {DefaultTelemetry})

SpecHistory == InitHistory /\ [][NextHistory]_vars

\* The positions reported in SpecProgress: those of UpdatePositions and one
\* farther from each waypoint than the waypoint before it
ProgressPositions == UpdatePositions \cup {"beyondA"}

\* The tracking engine fed positions on both sides of the leg it is flying
NextProgress ==
    \/ calls < ProgressMaxCalls /\ RegisterDrone
    \/ calls < ProgressMaxCalls /\ SetMission
    \/ calls < ProgressMaxCalls
           /\ UpdateDronePositionOf(ProgressPositions, {DefaultTelemetry})

SpecProgress == Init /\ [][NextProgress]_vars

\* The subscriber hub alone
SpecHub == Init /\ [][NextHub]_vars

\* The event bus after BusStarts publish calls, then used by one publisher
InitBusStarted ==
    /\ InitEngine /\ InitHub /\ InitCvWith(TrackingConfig(3, 2, 2)) /\ InitApi /\ InitExec
    /\ \E n \in BusStarts : InitBusAfter(n)
    /\ InitTasks /\ InitConvoy

SpecBus == InitBusStarted /\ [][NextBus]_vars

\* The tracking engine updated by concurrent tasks
SpecTasks == Init /\ [][NextTasks]_vars

\* The convoy manager called by concurrent tasks
SpecConvoy == Init /\ [][NextConvoy]_vars

\* The event bus used by concurrent publishers
SpecBusConcurrent == Init /\ [][NextBusConcurrent]_vars

\* The subscriber hub with the text frames of its clients and the owner's
\* set_command_handler calls
SpecMessages == Init /\ [][NextMessages]_vars

\* The request handlers of the HTTP API on the active-mission slot. A
\* handler whose write() or read() can return does return.
SpecApi ==
    /\ Init
    /\ [][NextApi]_vars
    /\ \A q \in Requests : /\ WF_vars(StartMissionWrite(q))
                           /\ WF_vars(GetMissionRead(q))
                           /\ WF_vars(PauseMissionRead(q))

\* The mission executor alone
SpecExec == Init /\ [][NextExec]_vars

\* The visual tracker alone
SpecCv == InitAnyConfig /\ [][NextCv]_vars

\* The server process holding a tracking engine and the hub side by side:
\* engine operations, the run_simulation broadcasts and one subscriber
\* connection. No code passes an event of the engine to the hub.
NextSys ==
    \/ calls < SysMaxCalls /\ RegisterDrone
    \/ calls < SysMaxCalls /\ SetMission
    \/ calls < SysMaxCalls /\ UpdateDronePosition
    \/ ConnectionStep("c1")
    \/ HubBroadcast

SpecSys == Init /\ [][NextSys]_vars

(***************************************************************************)
(* Properties of the subscriber hub (SpecHub) and of the process (SpecSys).*)
(***************************************************************************)
\* The events passed to WebSocketHub::broadcast after register_client
\* returned for connection c
PublishedSince(c) == SubSeq(hub_published, reg_at[c] + 1, Len(hub_published))

\* The events of the Event frames written to connection c's socket
ForwardedEvents(c) ==
    LET event_frames == SelectSeq(frames[c], LAMBDA f : f.type = "Event")
    IN [i \in DOMAIN event_frames |-> event_frames[i].event]

\* p is an initial part of q
IsPrefix(p, q) == Len(p) <= Len(q) /\ p = SubSeq(q, 1, Len(p))

\* C3: for a subscriber whose receiver never reported a lag, the events it
\* has received, and those forwarded to its socket, are the events broadcast
\* since its register_client returned, in that order, without gap or
\* duplicate: an initial part of them at any time, and all of them once the
\* receiver has nothing left to read.
C3_ReceivesBroadcastsSinceRegistration ==
    \A c \in ConnIds :
        ~lagged[c] =>
            /\ IsPrefix(received[c], PublishedSince(c))
            /\ IsPrefix(ForwardedEvents(c), received[c])
            /\ Len(received[c]) <= Len(ForwardedEvents(c)) + 1
            /\ (c \in Receivers /\ hub_rx[c] = hub_chan.tail) =>
                   received[c] = PublishedSince(c)

\* A subscriber that registered after the first broadcast, while another
\* subscriber was connected, has been forwarded the two later events
C3_Witness ==
    \E c \in ConnIds :
        /\ ~lagged[c]
        /\ reg_at[c] >= 1
        /\ hub_chan.tail = Len(hub_published)
        /\ Len(ForwardedEvents(c)) = 2
        /\ received[c] = PublishedSince(c)

\* The position event the last update_drone_position call sent
LastPositionEvent == last_op.events[Len(last_op.events)]

\* C4: once a subscriber that was connected before an update_drone_position
\* call on a registered drone, and never lagged, has read all the hub holds
\* for it, it has received exactly one event that is the call's
\* DRONE_POSITION_UPDATED event for that drone.
C4_UpdateReachesHubSubscribers ==
    (last_op.op = "update_drone_position" /\ last_op.events # <<>>) =>
        \A c \in last_op.connected :
            (/\ conn[c] = "forwarding"
             /\ ~lagged[c]
             /\ hub_rx[c] = hub_chan.tail) =>
                Cardinality({i \in DOMAIN received[c] :
                                /\ received[c][i].id = LastPositionEvent.id
                                /\ received[c][i].event_type = "DRONE_POSITION_UPDATED"
                                /\ received[c][i].drone_id = last_op.drone_id}) = 1

(***************************************************************************)
\* C5: from a tracker with no tracks, while every update call carries the
\* same single detection, no track is confirmed after fewer than
\* min_frames_to_confirm calls, and after exactly that many calls there is
\* one confirmed track (active_count() = 1) and the call returns it.
C5_ConfirmedAfterMinFrames ==
    (/\ cv_last.op = "update"
     /\ cv_inputs.same
     /\ Len(cv_inputs.detections) = 1) =>
        /\ cv_inputs.n < cv_config.min_frames_to_confirm => active_count = 0
        /\ cv_inputs.n = cv_config.min_frames_to_confirm =>
              /\ active_count = 1
              /\ Cardinality(cv_last.result) = 1

\* C6: a track that was unmatched in exactly max_frames_to_skip update calls
\* in a row and is unmatched again in the next call is gone from the tracker
\* and from the result after that call; a track that the call matched to a
\* detection is still in the tracker after it.
C6_RetiredAfterMaxFramesToSkip ==
    cv_last.op = "update" =>
        \A id \in DOMAIN cv_last.run_before :
            /\ (/\ id \notin DOMAIN cv_last.associations
                /\ cv_last.run_before[id] = cv_config.max_frames_to_skip) =>
                   /\ id \notin DOMAIN tracks
                   /\ \A t \in cv_last.result : t.tracking_id # id
            /\ id \in DOMAIN cv_last.associations => id \in DOMAIN tracks

\* A track that had been matched was then unmatched max_frames_to_skip (>= 1)
\* calls in a row, and the call after those has just removed it
C6_Witness ==
    /\ cv_last.op = "update"
    /\ cv_config.max_frames_to_skip >= 1
    /\ \E id \in DOMAIN cv_last.run_before :
          /\ id \notin DOMAIN cv_last.associations
          /\ cv_last.run_before[id] = cv_config.max_frames_to_skip
          /\ id \notin DOMAIN tracks

PredictedTracks == [id \in DOMAIN tracks |-> [tracks[id] EXCEPT !.kalman = kalman_predict(@)]]

\* An assignment gives no detection to two tracks (a track has one
\* detection by construction of the map)
OneToOne(associations) ==
    \A a, b \in DOMAIN associations :
        associations[a] = associations[b] => a = b

\* C8: for the tracks of any reachable tracker state and any detection list
\* the assignment of associate_detections is one-to-one and is the same
\* for every iteration order of the track map.
C8_AssociationOrderIndependent ==
    \A detections \in DetectionLists :
        \A o1, o2 \in KeyOrders(DOMAIN tracks) :
            /\ OneToOne(associate_detections(PredictedTracks, o1, detections))
            /\ associate_detections(PredictedTracks, o1, detections)
                   = associate_detections(PredictedTracks, o2, detections)

(***************************************************************************)
(* Properties of the tracking engine (SpecTracker).                        *)
(***************************************************************************)
\* The waypoint-reached events among the events of one call
WaypointEvents(events) ==
    SelectSeq(events, LAMBDA e : e.event_type = "WAYPOINT_REACHED")

\* The index (from 0) at which mission m lists the waypoint with this id
WaypointIndexOf(m, waypoint_id) ==
    (CHOOSE k \in DOMAIN m.waypoints : m.waypoints[k].id = waypoint_id) - 1

\* The step is a call of update_drone_position for drone d
IsUpdateOf(d) ==
    /\ calls' = calls + 1
    /\ last_op'.op = "update_drone_position"
    /\ last_op'.drone_id = d

\* Every tracked drone's waypoint_index is at most the number of waypoints
\* of the mission in the slot
IndexInRange ==
    mission # <<>> =>
        \A d \in DOMAIN drones :
            drones[d].waypoint_index <= Len(mission[1].waypoints)

\* No tracked drone's waypoint_index is smaller after the step than before
IndexNotDecreased ==
    \A d \in DOMAIN drones \cap DOMAIN drones' :
        drones'[d].waypoint_index >= drones[d].waypoint_index

\* C1: under any sequence of register_drone, set_mission and
\* update_drone_position calls every tracked drone's waypoint_index stays
\* within 0..N, N the number of waypoints of the mission in the slot, and no
\* call decreases a waypoint_index.
C1_IndexBoundedAndMonotone == [][IndexInRange' /\ IndexNotDecreased]_vars

\* C2: per drone, waypoint-reached events name the waypoints of the mission
\* in the slot in strictly increasing index order with none skipped: an
\* event for index k is sent only if no event for an index >= k of that
\* mission was sent before for the drone and, when k > 0, one for index
\* k - 1 was.
C2_WaypointEventsInOrder ==
    [][\A d \in DroneIds :
          (IsUpdateOf(d) /\ mission # <<>>) =>
              \A i \in DOMAIN WaypointEvents(last_op'.events) :
                  LET m == mission[1]
                      k == WaypointIndexOf(m, WaypointEvents(last_op'.events)[i].waypoint_id)
                  IN /\ k > 0 => m.waypoints[k].id \in reached[d]
                     /\ \A j \in (k + 1)..Len(m.waypoints) :
                            m.waypoints[j].id \notin reached[d]]_vars

\* C9: one update_drone_position call for a registered drone whose
\* waypoint_index is below the waypoint count sends a waypoint-reached event
\* iff the new position is closer than waypoint_threshold_meters to the
\* waypoint at that index; then it is the only such event, it names that
\* waypoint, the index grows by 1 and progress becomes 0; otherwise the index
\* is unchanged.
C9_WaypointReachedIffWithinThreshold ==
    [][\A d \in DOMAIN drones :
          (/\ IsUpdateOf(d)
           /\ mission # <<>>
           /\ drones[d].waypoint_index < Len(mission[1].waypoints)) =>
              LET wp == mission[1].waypoints[drones[d].waypoint_index + 1]
                  sent == WaypointEvents(last_op'.events)
                  close == distance_meters(drones'[d].position, wp.position)
                               < waypoint_threshold_meters
              IN /\ close <=> sent # <<>>
                 /\ close =>
                       /\ Len(sent) = 1
                       /\ sent[1].waypoint_id = wp.id
                       /\ sent[1].drone_id = d
                       /\ drones'[d].waypoint_index = drones[d].waypoint_index + 1
                       /\ drones'[d].waypoint_progress = 0
                 /\ ~close =>
                       drones'[d].waypoint_index = drones[d].waypoint_index]_vars

\* An update has just reached the second waypoint of the mission after the
\* drone had made progress towards it
C9_Witness ==
    /\ last_op.op = "update_drone_position"
    /\ mission # <<>>
    /\ \E d \in DOMAIN drones :
          /\ last_op.drone_id = d
          /\ drones[d].waypoint_index = 2
          /\ drones[d].waypoint_progress = 0
          /\ Len(drones[d].position_history) >= 3
          /\ WaypointEvents(last_op.events) # <<>>
          /\ WaypointEvents(last_op.events)[1].waypoint_id = mission[1].waypoints[2].id

\* C10: right after set_mission(m) every tracked drone assigned to m has
\* waypoint_index 0 and waypoint_progress 0.
C10_SetMissionResetsProgress ==
    last_op.op = "set_mission" =>
        \A d \in DOMAIN drones \cap mission[1].assigned_drones :
            /\ drones[d].waypoint_index = 0
            /\ drones[d].waypoint_progress = 0

\* The step is a call of register_drone for drone id d
IsRegisterOf(d) ==
    /\ calls' = calls + 1
    /\ last_op'.op = "register_drone"
    /\ last_op'.drone_id = d

\* C11: register_drone with an id that is already in the drone map leaves
\* that drone's tracked record (position, telemetry, position history,
\* waypoint index and progress) and drone_count() unchanged.
C11_RegisterDroneIdempotent ==
    [][\A d \in DOMAIN drones :
          IsRegisterOf(d) =>
              /\ drones'[d] = drones[d]
              /\ drone_count' = drone_count]_vars

\* The alerts of one type among the alerts of one call
AlertsOfType(alerts, alert_type) ==
    SelectSeq(alerts, LAMBDA a : a.alert_type = alert_type)

\* The last operation was update_drone_position on a registered drone
LastUpdateTracked ==
    /\ last_op.op = "update_drone_position"
    /\ last_op.events # <<>>

\* C13: an update_drone_position call that finds room on the alert channel
\* for the alerts it derives (fewer than 256 undelivered alerts after each
\* is placed) leaves every one of them on the channel, in order, behind
\* those already there.
C13_AlertsQueuedWhileRoom ==
    [][\A d \in DOMAIN drones :
          (/\ IsUpdateOf(d)
           /\ Len(alert_queue) + Len(last_op'.alerts) <= AlertChannelCapacity) =>
              alert_queue' = alert_queue \o last_op'.alerts]_vars

\* C14: an update of a registered drone derives at most one BATTERY_LOW
\* alert, for that drone: CRITICAL exactly when battery is below
\* battery_critical_threshold, WARNING exactly when it is at or above that
\* and below battery_warning_threshold, none when it is at or above
\* battery_warning_threshold.
C14_BatteryLowBySeverity ==
    LastUpdateTracked =>
        LET battery == LastPositionEvent.telemetry.battery_level
            low == AlertsOfType(last_op.alerts, "BATTERY_LOW")
        IN /\ Len(low) <= 1
           /\ \A i \in DOMAIN low : low[i].drone_id = last_op.drone_id
           /\ battery < battery_critical_threshold <=>
                  (\E i \in DOMAIN low : low[i].severity = "CRITICAL")
           /\ (/\ battery >= battery_critical_threshold
               /\ battery < battery_warning_threshold) <=>
                  (\E i \in DOMAIN low : low[i].severity = "WARNING")
           /\ battery >= battery_warning_threshold <=> low = <<>>

\* The last update reported a battery level equal to
\* battery_critical_threshold and derived one WARNING BATTERY_LOW alert
C14_Witness ==
    /\ LastUpdateTracked
    /\ LastPositionEvent.telemetry.battery_level = battery_critical_threshold
    /\ Len(AlertsOfType(last_op.alerts, "BATTERY_LOW")) = 1
    /\ AlertsOfType(last_op.alerts, "BATTERY_LOW")[1].severity = "WARNING"

\* C15: an update of a registered drone whose fuel is below
\* fuel_warning_threshold derives a FUEL_LOW alert for that drone: CRITICAL
\* when fuel is below fuel_critical_threshold, WARNING when it is at or above
\* that.
C15_FuelLowBySeverity ==
    (/\ LastUpdateTracked
     /\ LastPositionEvent.telemetry.fuel_level < fuel_warning_threshold) =>
        LET fuel == LastPositionEvent.telemetry.fuel_level
            low == AlertsOfType(last_op.alerts, "FUEL_LOW")
        IN \E i \in DOMAIN low :
              /\ low[i].drone_id = last_op.drone_id
              /\ low[i].severity = IF fuel < fuel_critical_threshold
                                   THEN "CRITICAL" ELSE "WARNING"

\* C12: while a telemetry insert is pending the update call that started
\* it no longer holds the drone's map entry, so that get_drone,
\* get_all_drones and update_drone_position calls of other tasks need not
\* wait for the insert.
C12_NoEntryHeldWhileInsertPending ==
    \A p \in db_pending : p.drone_id \notin guards

(***************************************************************************)
(* Further properties of the subscriber hub (SpecHub).                     *)
(***************************************************************************)
\* The events broadcast since connection c registered that its receiver has
\* neither returned nor reported as missed, oldest first
Pending(c) ==
    SubSeq(PublishedSince(c), Len(received[c]) + skipped[c] + 1,
           Len(PublishedSince(c)))

\* The step is a receive of connection c's forward loop
IsRecvOf(c) ==
    /\ conn[c] = "forwarding"
    /\ hub_rx'[c] # hub_rx[c]

\* C16: a receive of a subscriber that has more than the channel capacity of
\* events pending yields Lagged(n) with n the number of pending events the
\* channel no longer retains, delivers nothing and leaves the forward loop
\* running; any other receive delivers the oldest pending event, which after
\* a Lagged is the oldest retained one, so the retained events follow in
\* publish order.
C16_LaggedThenOldestRetained ==
    [][\A c \in ConnIds :
          IsRecvOf(c) =>
              IF Len(Pending(c)) > channel_capacity(BroadcastCapacity)
              THEN /\ skipped'[c] = skipped[c]
                          + (Len(Pending(c)) - channel_capacity(BroadcastCapacity))
                   /\ lagged'[c]
                   /\ received'[c] = received[c]
                   /\ frames'[c] = frames[c]
                   /\ conn'[c] = "forwarding"
              ELSE /\ skipped'[c] = skipped[c]
                   /\ received'[c] = Append(received[c], Pending(c)[1])]_vars

\* A subscriber fell three events behind a channel of capacity two, was told
\* Lagged(1) and has then been forwarded the two retained events in order
C16_Witness ==
    \E c \in ConnIds :
        /\ conn[c] = "forwarding"
        /\ skipped[c] = 1
        /\ Len(PublishedSince(c)) = 3
        /\ ForwardedEvents(c) = SubSeq(PublishedSince(c), 2, 3)

IndexIn(seq, e) == CHOOSE i \in DOMAIN seq : seq[i] = e

\* sub lists elements of seq in the order seq has them, none twice
InOrderOf(sub, seq) ==
    /\ \A i \in DOMAIN sub : sub[i] \in Range(seq)
    /\ \A i, j \in DOMAIN sub :
          i < j => IndexIn(seq, sub[i]) < IndexIn(seq, sub[j])

\* C18: the first frame sent on a connection is InitialState and every later
\* frame is an Event frame; the Event frames carry events broadcast since the
\* registration, in broadcast order; and a subscriber that never lagged and
\* has nothing left to read has been sent, after InitialState, every event
\* broadcast since its registration, those broadcast before the handshake
\* send included.
C18_InitialStateFirst ==
    \A c \in ConnIds :
        /\ frames[c] # <<>> => frames[c][1] = initial_state
        /\ \A i \in 2..Len(frames[c]) : frames[c][i].type = "Event"
        /\ InOrderOf(ForwardedEvents(c), PublishedSince(c))
        /\ (/\ conn[c] = "forwarding"
            /\ ~lagged[c]
            /\ hub_rx[c] = hub_chan.tail) =>
               /\ Len(frames[c]) = 1 + Len(PublishedSince(c))
               /\ ForwardedEvents(c) = PublishedSince(c)

\* Events were broadcast between a client's registration and its handshake
\* send, and the client has since been sent InitialState and then all the
\* events broadcast since its registration
C18_Witness ==
    \E c \in ConnIds :
        /\ handshake_late[c]
        /\ conn[c] = "forwarding"
        /\ ~lagged[c]
        /\ frames[c][1] = initial_state
        /\ Len(frames[c]) >= 3
        /\ ForwardedEvents(c) = PublishedSince(c)

\* C19: every InitialState frame lists exactly the drones of the server's
\* drone collection and carries the mission of its active-mission slot.
C19_InitialStateIsSnapshot ==
    \A c \in ConnIds :
        \A i \in DOMAIN frames[c] :
            frames[c][i].type = "InitialState" =>
                /\ Range(frames[c][i].drones) = Range(AppStateNew.drones)
                /\ Len(frames[c][i].drones) = Cardinality(DOMAIN AppStateNew.drones)
                /\ frames[c][i].mission = AppStateNew.active_mission

\* The step sends an Event frame to connection c
IsEventSendTo(c) ==
    /\ conn[c] = "forwarding"
    /\ Len(frames'[c]) = Len(frames[c]) + 1

\* C20: an Event frame sent to a subscriber whose subscription filter is a
\* set S of drone ids at that time is about a drone in S; a subscriber whose
\* filter is None is sent every event it receives.
C20_FilteredEventsOnly ==
    [][\A c \in ConnIds :
          /\ IsEventSendTo(c) =>
                 LET sent == frames'[c][Len(frames'[c])].event
                     subscriptions == clients[c].subscriptions
                 IN subscriptions # <<>> => sent.drone_id \in subscriptions[1]
          /\ (IsRecvOf(c) /\ clients[c].subscriptions = <<>>
                  /\ received'[c] # received[c] /\ conn'[c] = "forwarding") =>
                 IsEventSendTo(c)]_vars

(***************************************************************************)
(* Properties of the hub's client messages (SpecMessages).                 *)
(***************************************************************************)
\* The step is the incoming task of connection c handling one text frame
IsTextOf(c) ==
    /\ text_count' = text_count + 1
    /\ last_text'.op = "text"
    /\ last_text'.conn = c

\* The drones a filter lets through: None is every drone
SubscribedSet(subscriptions) ==
    IF subscriptions = <<>> THEN DroneIds ELSE subscriptions[1]

\* The reference model of a client's subscriptions: the set after a parsed
\* frame, given the set before it
RefSubscribedAfter(subscribed, parsed) ==
    IF ~parsed.ok THEN subscribed
    ELSE IF parsed.msg.variant = "Subscribe"
    THEN IF parsed.msg.drone_ids = <<>> THEN DroneIds ELSE parsed.msg.drone_ids[1]
    ELSE IF parsed.msg.variant = "Unsubscribe"
    THEN IF parsed.msg.drone_ids = <<>> THEN {}
         ELSE subscribed \ parsed.msg.drone_ids[1]
    ELSE subscribed

\* C21: a text frame of a registered client leaves the client subscribed to
\* the drones the reference model gives (Subscribe replaces the set, None
\* meaning every drone; Unsubscribe with ids removes them, also from "every
\* drone"; Unsubscribe with None empties it), and a text frame of a client
\* that is not registered leaves the client map as it was.
C21_SubscriptionsFollowReference ==
    [][\A c \in ConnIds :
          IsTextOf(c) =>
              IF c \in DOMAIN clients
              THEN /\ c \in DOMAIN clients'
                   /\ SubscribedSet(clients'[c].subscriptions) =
                          RefSubscribedAfter(SubscribedSet(clients[c].subscriptions),
                                             from_str(last_text'.text))
              ELSE clients' = clients]_vars

\* The step is a set_command_handler call
IsSetCommandHandler ==
    /\ last_text'.op = "set_command_handler"
    /\ text_count' = text_count
    /\ invocations' = invocations
    /\ clients' = clients
    /\ conn' = conn
    /\ incoming' = incoming
    /\ hub_chan' = hub_chan
    /\ hub_rx' = hub_rx

\* The hub's own state: the client map, the channel, the counters and the
\* handler slot
HubState == <<clients, hub_chan, hub_rx, message_count, command_handler>>

\* C22: the handler slot holds the handler passed to the latest
\* set_command_handler call and is changed by nothing else; a DroneCommand
\* frame calls the handler in the slot once, with the frame's command; with
\* the slot empty it calls nothing, changes no hub state and leaves the
\* connection and its incoming task as they were.
C22_CommandInvokesLatestHandler ==
    [][/\ IsSetCommandHandler => command_handler' = <<last_text'.handler>>
       /\ ~IsSetCommandHandler => command_handler' = command_handler
       /\ \A c \in ConnIds :
             (IsTextOf(c) /\ from_str(last_text'.text).ok) =>
                 LET msg == from_str(last_text'.text).msg
                 IN IF msg.variant # "DroneCommand"
                    THEN invocations' = invocations
                    ELSE IF command_handler # <<>>
                    THEN invocations' =
                             Append(invocations, [handler |-> command_handler[1],
                                                  command |-> msg.command])
                    ELSE /\ invocations' = invocations
                         /\ HubState' = HubState
                         /\ conn' = conn
                         /\ incoming'[c] = "running"]_vars

\* Two DroneCommand frames were handled, the first by one handler and the
\* second by the handler registered after it
C22_Witness ==
    /\ Len(invocations) = 2
    /\ invocations[1].handler # invocations[2].handler
    /\ last_text.op = "text"
    /\ command_handler = <<invocations[2].handler>>

\* C24: a text frame that does not parse as a ClientMessage is answered by
\* an Err that is only logged: the client map with its filters, the handler
\* slot and the handler calls are as before, the connection is not closed
\* and the incoming task goes on to its next frame.
C24_MalformedFrameDiscarded ==
    [][\A c \in ConnIds :
          (IsTextOf(c) /\ ~from_str(last_text'.text).ok) =>
              /\ last_text'.result = "Err"
              /\ parse_errors'[c] = parse_errors[c] + 1
              /\ HubState' = HubState
              /\ invocations' = invocations
              /\ conn' = conn
              /\ incoming'[c] = "running"]_vars

\* A connection whose earlier frame did not parse has had a Subscribe frame
\* handled: its filter is the one the frame asked for
C24_Witness ==
    /\ parse_errors["c1"] = 1
    /\ last_text.op = "text"
    /\ last_text.conn = "c1"
    /\ last_text.result = "Ok"
    /\ from_str(last_text.text).msg.variant = "Subscribe"
    /\ "c1" \in DOMAIN clients
    /\ clients["c1"].subscriptions = <<{"REAPER-01"}>>

(***************************************************************************)
(* Connection cleanup (SpecHub).                                           *)
(***************************************************************************)
\* C23: once handle_connection has returned for a connection, on whatever
\* path, its client id is no longer registered; with no connection open,
\* client_count() is 0.
C23_UnregisteredWhenConnectionEnds ==
    /\ \A c \in ConnIds : conn[c] = "closed" => c \notin DOMAIN clients
    /\ (\A c \in ConnIds : conn[c] \in {"idle", "closed"}) => client_count = 0

(***************************************************************************)
(* Properties of the active-mission slot (SpecApi).                        *)
(***************************************************************************)
\* C25: a start_mission handler invoked while the slot holds a mission
\* returns, and then the slot holds a mission with status ACTIVE; a
\* get_mission handler returns as well.
C25_StartMissionReturns ==
    \A q \in Requests :
        /\ (api_pc[q].at = "start_mission" /\ active_mission # <<>>)
               ~> (/\ api_pc[q].at = "idle"
                   /\ active_mission # <<>>
                   /\ active_mission[1].status = "ACTIVE")
        /\ (api_pc[q].at = "get_mission") ~> (api_pc[q].at = "idle")

(***************************************************************************)
(* Further properties of the tracking engine.                              *)
(***************************************************************************)
\* C26: update_drone_position for an id that has no entry in the drone map
\* returns Ok, leaves the map and every tracked drone as they were, sends no
\* event and no alert and hands no insert to the database (SpecPersist: a
\* database client is set).
C26_UnknownDroneIgnored ==
    [][\A d \in DroneIds :
          (IsUpdateOf(d) /\ d \notin DOMAIN drones) =>
              /\ last_op'.result = "Ok"
              /\ drones' = drones
              /\ last_op'.events = <<>>
              /\ last_op'.alerts = <<>>
              /\ alert_queue' = alert_queue
              /\ reached' = reached
              /\ db_pending' = db_pending
              /\ guards' = guards]_vars

\* With a database client set and another drone tracked, an update for an
\* id that has no entry has just returned
C26_Witness ==
    /\ db # None
    /\ last_op.op = "update_drone_position"
    /\ last_op.drone_id \notin DOMAIN drones
    /\ DOMAIN drones # {}
    /\ last_op.result = "Ok"
    /\ db_pending = {}

\* The last k elements of a sequence, all of them if it has fewer
LastN(seq, k) ==
    IF Len(seq) <= k THEN seq ELSE SubSeq(seq, Len(seq) - k + 1, Len(seq))

\* The position an update call reported
UpdatePositionOf(op) == op.events[Len(op.events)].position

\* C27: a drone's position_history never holds more than 100 entries, and an
\* update leaves in it the previous entries followed by the new sample, cut
\* to the most recent 100: after n updates it holds the most recent
\* min(n, 100) samples in arrival order (SpecHistory).
C27_HistoryKeepsMostRecent ==
    [][/\ \A d \in DOMAIN drones' :
             Len(drones'[d].position_history) <= PositionHistoryCap
       /\ \A d \in DOMAIN drones :
             IsUpdateOf(d) =>
                 drones'[d].position_history =
                     LastN(Append(drones[d].position_history,
                                  UpdatePositionOf(last_op')),
                           PositionHistoryCap)]_vars

\* The history is full and has dropped its oldest samples: it no longer
\* starts with the first sample, and it ends with the two latest ones
C27_Witness ==
    /\ calls = HistoryMaxCalls
    /\ "REAPER-01" \in DOMAIN drones
    /\ last_op.op = "update_drone_position"
    /\ last_op.drone_id = "REAPER-01"
    /\ LET history == drones["REAPER-01"].position_history
       IN /\ Len(history) = PositionHistoryCap
          /\ history[PositionHistoryCap] = "offA"
          /\ history[PositionHistoryCap - 1] = "offA"
          /\ history[PositionHistoryCap - 2] = "offA"
          /\ history[1] # History(1)[1]

(***************************************************************************)
(* Properties of the mission executor (SpecExec).                          *)
(***************************************************************************)
\* The step is a call of MissionExecutor::update_drone_position
IsExecUpdate ==
    /\ exec_calls' = exec_calls + 1
    /\ exec_last'.op = "update_drone_position"

\* C28: with no mission set, or with the mission's status other than ACTIVE,
\* update_drone_position returns None and leaves every drone's
\* WaypointProgress as it was.
C28_InactiveMissionIgnoresUpdates ==
    [][(IsExecUpdate /\ (exec_mission = <<>> \/ exec_mission[1].status # "ACTIVE")) =>
           /\ exec_last'.result = <<>>
           /\ drone_progress' = drone_progress
           /\ exec_mission' = exec_mission]_vars

\* A paused mission has just ignored an update that reported a drone, one
\* waypoint into the route, within the threshold of its current waypoint
C28_Witness ==
    /\ exec_last.op = "update_drone_position"
    /\ exec_mission # <<>>
    /\ exec_mission[1].status = "PAUSED"
    /\ exec_last.drone_id \in DOMAIN drone_progress
    /\ exec_last.result = <<>>
    /\ LET progress == drone_progress[exec_last.drone_id]
           m == exec_mission[1]
       IN /\ progress.current_index = 1
          /\ Len(m.waypoints) = 2
          /\ distance_meters(exec_last.position, m.waypoints[2].position)
                 < threshold_meters

\* C29: is_complete() is true exactly when a mission is set and every drone
\* assigned to it has a progress entry whose current_index is at least the
\* number of the mission's waypoints; entries of drones that only an
\* earlier mission had assigned do not count.
C29_CompleteIffAssignedDronesDone ==
    is_complete <=>
        /\ exec_mission # <<>>
        /\ \A d \in exec_mission[1].assigned_drones :
              /\ d \in DOMAIN drone_progress
              /\ drone_progress[d].current_index >= Len(exec_mission[1].waypoints)

(***************************************************************************)
(* Waypoint progress (SpecProgress).                                       *)
(***************************************************************************)
\* C30: every tracked drone's waypoint_progress and every executor entry's
\* progress_to_next lies in [0, 1] (both are kept in thousandths).
C30_ProgressWithinUnitInterval ==
    /\ \A d \in DOMAIN drones :
          /\ drones[d].waypoint_progress >= 0
          /\ drones[d].waypoint_progress <= 1000
    /\ \A d \in DOMAIN drone_progress :
          /\ drone_progress[d].progress_to_next >= 0
          /\ drone_progress[d].progress_to_next <= 1000

\* C31: overall_progress() lies in [0, 1] in every state of the mission
\* executor, also after the mission was replaced by one with fewer
\* waypoints or with other assigned drones.
C31_OverallProgressWithinUnitInterval ==
    /\ overall_progress.num >= 0
    /\ overall_progress.num <= overall_progress.den

(***************************************************************************)
(* Track creation in the visual tracker (SpecCv).                          *)
(***************************************************************************)
\* The step is a call of DroneTracker::update (drone-cv)
IsCvUpdate == frame_count' = frame_count + 1

\* The detections of the call that update matched to no track
UnmatchedDetections(last) ==
    {i \in 1..Len(last.detections) :
        \A id \in DOMAIN last.associations : last.associations[id] # i}

\* C32: total_count() never exceeds max_tracks; an update call creates one
\* track for each unmatched detection, in order, while the total is below
\* max_tracks and none from then on, and creates no track for a matched
\* detection.
C32_TracksCappedAtMaxTracks ==
    /\ [](total_count <= cv_config.max_tracks)
    /\ [][IsCvUpdate =>
             LET unmatched == Cardinality(UnmatchedDetections(cv_last'))
                 room == Max(cv_config.max_tracks - total_count, 0)
             IN /\ Len(created_ids') - Len(created_ids) = Min(unmatched, room)
                /\ next_id' - next_id = Min(unmatched, room)]_vars

\* The first update call of a tracker with max_tracks = 1 carried two
\* detections, matched none and created a single track
C32_Witness ==
    /\ cv_last.op = "update"
    /\ frame_count = 1
    /\ Len(cv_last.detections) = 2
    /\ DOMAIN cv_last.associations = {}
    /\ cv_config.max_tracks = 1
    /\ total_count = 1
    /\ created_ids = <<1>>

\* C33: tracking ids are strictly increasing in the order of creation, so no
\* two tracks that ever existed share an id, also after tracks were retired
\* and after clear(); every track carries the id it is stored under, which
\* is one of the ids assigned.
C33_TrackingIdsNeverReused ==
    /\ \A i, j \in DOMAIN created_ids : i < j => created_ids[i] < created_ids[j]
    /\ \A id \in DOMAIN tracks :
          /\ tracks[id].tracking_id = id
          /\ \E i \in DOMAIN created_ids : created_ids[i] = id
    /\ \A i \in DOMAIN created_ids : created_ids[i] < next_id

\* A track was created by the first update call after a clear() that
\* followed the creation of at least two earlier tracks, the first of
\* which is gone
C33_Witness ==
    /\ cv_last.op = "update"
    /\ Len(created_ids) >= 3
    /\ cv_inputs.same /\ cv_inputs.n = 1
    /\ created_ids[Len(created_ids)] \in DOMAIN tracks
    /\ 1 \notin DOMAIN tracks

(***************************************************************************)
(* Properties of the event bus (SpecBus, SpecBusConcurrent).               *)
(***************************************************************************)
\* The counts get_recent is asked for
RecentCounts == {0, 1, 2, max_history - 1, max_history, max_history + 1}

\* No publish call is in flight
BusQuiet == \A p \in Publishers : bus_pc[p] = BusIdle

\* C34: after publish calls made one at a time the history holds at most
\* 1000 events, get_recent(n) is the last min(n, history length) events
\* published, oldest first, and get_event_count() is the number of publish
\* calls made, with or without subscribers.
C34_HistoryBoundedAndCounted ==
    BusQuiet =>
        /\ Len(bus_history) <= 1000
        /\ Len(bus_history) = Min(Len(bus_published), 1000)
        /\ \A n \in RecentCounts :
              get_recent(n) = LastN(bus_published, Min(n, Len(bus_history)))
        /\ get_event_count = Len(bus_published)

\* The 1002nd publish call has returned with no subscriber: the two oldest
\* events have left the history
C34_Witness ==
    /\ BusQuiet
    /\ Len(bus_published) = 1002
    /\ subscriber_count = 0
    /\ bus_history[1] = BusEvent(3)
    /\ bus_calls > 0

\* The position of an event in a sequence that holds it
PositionIn(seq, e) == CHOOSE i \in DOMAIN seq : seq[i] = e

\* C38: whatever the interleaving of concurrent publish calls, every
\* subscriber receives events in the order in which the history holds them.
C38_HistoryOrderIsDeliveryOrder ==
    \A sub \in BusSubscribers :
        bus_rx[sub] # <<>> =>
            LET got == bus_rx[sub][1].got
                recent == get_recent(max_history)
            IN \A i, j \in DOMAIN got :
                  i < j => PositionIn(recent, got[i]) < PositionIn(recent, got[j])

(***************************************************************************)
(* Waypoint progress and the mission's status (SpecTracker).               *)
(***************************************************************************)
\* The step is a call of DroneTracker::update_drone_position (drone-tracker)
IsTrackerUpdate ==
    /\ calls' = calls + 1
    /\ last_op'.op = "update_drone_position"

\* C35: while the mission slot is empty or holds a mission whose status is
\* not ACTIVE, update_drone_position sends no waypoint-reached event and
\* changes no drone's waypoint_index or waypoint_progress.
C35_InactiveMissionFreezesWaypoints ==
    [][(IsTrackerUpdate /\ (mission = <<>> \/ mission[1].status # "ACTIVE")) =>
           /\ \A i \in DOMAIN last_op'.events :
                 last_op'.events[i].event_type # "WAYPOINT_REACHED"
           /\ \A d \in DOMAIN drones :
                 /\ d \in DOMAIN drones'
                 /\ drones'[d].waypoint_index = drones[d].waypoint_index
                 /\ drones'[d].waypoint_progress = drones[d].waypoint_progress]_vars

(***************************************************************************)
(* Prediction steps of the Kalman filters (SpecCv).                        *)
(***************************************************************************)
\* C36: in each update call the Kalman filter of every track that existed
\* before the call takes exactly one prediction step, matched or not.
C36_OnePredictionPerUpdate ==
    cv_last.op = "update" =>
        \A id \in DOMAIN cv_last.predicts : cv_last.predicts[id] = 1

(***************************************************************************)
(* Concurrent updates of one drone (SpecTasks).                            *)
(***************************************************************************)
\* No update_drone_position call for the drone is between get_mut and return
NoUpdateInFlight(d) ==
    \A t \in Tasks : upd_pc[t] = TaskIdle \/ upd_pc[t].drone_id # d

C39_OffsetsMatchFinalFormationAndOrder ==
    (\A k \in Callers : convoy_pc[k] = ConvoyIdle) =>
        /\ offsets = offsets_of(formation, order)
        /\ DOMAIN offsets = Range(order)
        /\ order # <<>> => offsets[order[1]] = FormationOffset(0, 0)

(***************************************************************************)
(* Commands of a client whose connection has been cleaned up               *)
(* (SpecMessages).                                                         *)
(***************************************************************************)
\* handle_connection has run unregister_client for the connection
Unregistered(c) == conn[c] = "closed" /\ c \notin DOMAIN clients

\* C40: a text frame that arrives on a connection after handle_connection
\* has unregistered its client causes no call of the command handler.
C40_NoDispatchAfterUnregister ==
    [][\A c \in ConnIds :
           (IsTextOf(c) /\ Unregistered(c)) => invocations' = invocations]_vars

====
